---- MODULE Spec2Model ----
(***************************************************************************)
(* Compositing back end of the render engine: the Layer tree (Layer.js),   *)
(* the TilingManager, the Rasterizer, the GPUSimulator, the Compositor     *)
(* and the LayerTreeCalculator with the PaintRecordGenerator.  Each        *)
(* component is a group of variables with its own specification            *)
(* (SpecLayer, SpecTiling, SpecRaster, SpecGPU, SpecCompositor,            *)
(* SpecCalculator, SpecGenerator) and so is the RenderEngine that drives   *)
(* them (SpecEngine).                                                      *)
(***************************************************************************)
EXTENDS Integers, Sequences, FiniteSets, TLC

(* ------------------------------ bounds --------------------------------- *)
\* layers other than the root that LayerTree.createLayer may create
NumLayers == 2
\* z-index values range over 0..MaxZ
MaxZ == 2
\* layers handed to the TilingManager
NumTileLayers == 2
\* TilingManager options.tileSize and options.maxMemoryUsage (bytes), scaled down
TileSize == 2
MaxMemoryUsage == 32
\* statistics counters stop counting here
MaxCount == 1
\* tiles handed to the Rasterizer, paint records of their layer
NumRasterTiles == 1
MaxRecords == 1
\* Rasterizer options.maxWorkers and options.maxCacheSize (bytes), scaled down
MaxWorkers == 1
MaxCacheSize == 32
\* rasterizeTile calls that may be awaiting their result at once; cap of stats.cacheHits
MaxCalls == MaxWorkers + 1
MaxHits == 1
\* draw quads created on the GPU simulator; edge of a quad and of the viewport
MaxQuads == 3
QuadSize == 2
ViewportSize == 4
\* how far direct drawing may move a paint record before the compositor stops
MaxShift == 2
\* layers below the root in a tree that is composited
MaxComposited == 2
\* nodes of a layout tree handed to LayerTreeCalculator.calculate
MaxNodes == 3
\* layers of a layer tree handed to PaintRecordGenerator.generate
MaxPaintLayers == 2
\* RenderEngine: widths of the layout boxes of a render tree, edge of the canvas
MaxWidth == 2
CanvasSize == 2
\* tiles of the TilingManager that hold canvases, and canvases created
NumManagedTiles == 2
MaxCanvases == 2
\* quads drawn on a 2D context, and save() calls the context may be left with
MaxContextQuads == 2
MaxSaves == 2
\* paint records of the layer handed to the merge pass
MaxMergeRecords == 3

VARIABLES
  \* ---- Layer / LayerTree (Layer.js) ----
  created,          \* Layer objects constructed so far
  allLayers,        \* LayerTree.allLayers (ids registered)
  parent,           \* Layer.parent
  children,         \* Layer.children (array)
  zIndex,           \* Layer.zIndex
  pushOrder,        \* history: the current children of a layer in the order they were pushed
  \* ---- TilingManager (TilingManager.js) ----
  tiles,            \* TilingManager.tiles: key -> Tile
  layerTiles,       \* TilingManager.layerTiles: layer id -> set of keys
  tileAccessOrder,  \* TilingManager.tileAccessOrder (least recently used first)
  currentMemoryUsage,
  tCacheHits,       \* TilingManager.stats.cacheHits
  gen,              \* the generateTilesForLayer call in progress, if any
  tLast,            \* history: what the last TilingManager step did
  \* ---- Rasterizer (Rasterizer.js) ----
  paintRecords,     \* layer.paintRecords of the layer the tiles belong to
  tileContent,      \* tile.rasterizedContent
  tileDirty,        \* tile.isDirty / tile.needsRasterization
  rasterCache,      \* Rasterizer.rasterCache, entries in insertion order
  currentCacheSize,
  rCacheHits,       \* Rasterizer.stats.cacheHits
  workerBusy,       \* workerPool[w].busy
  inFlight,         \* rasterizeTile calls that have not returned yet, oldest first
  rLast,            \* history: what the last Rasterizer step did
  \* ---- GPUSimulator (GPUSimulator.js) ----
  enableBatching,
  drawQuads,        \* GPUSimulator.drawQuads, in creation order
  currentBatch,     \* shader, texture, blendMode of currentBatch (its quads are empty between frames)
  stats,            \* totalDrawCalls, totalQuads, batchCount
  gFrame,           \* history: what the last step, when it was renderFrame, submitted,
                    \* batched and drew
  \* ---- Compositor (Compositor.js) and the Layer fields it reads ----
  enableTiling,
  layerOptions,     \* Layer.opacity, Layer.bounds and the kind of the layer's paint record
  needsRepaint,     \* Layer.needsRepaint
  recordX,          \* bounds.x of the layer's paint record
  cTiles,           \* compositor.tilingManager.tiles: key -> Tile, with its rasterizedContent
  cCache,           \* compositor.rasterizer.rasterCache: signature -> buffer
  cWorkerBusy,      \* compositor.rasterizer.workerPool[w].busy
  cInFlight,        \* rasterizeTile calls of the compositor that can still resume
  surface,          \* what the canvas shows: the draws since the last clearRect
  cStats,           \* compositor.stats without the timing
  cLast,            \* history: what the last Compositor step did
  \* ---- LayerTreeCalculator (LayerTreeCalculator.js), PaintRecordGenerator ----
  layoutTree,       \* the layout tree: node i is [parent, style], node 1 the root
  calc,             \* the LayerTree calculate returned, and calculator.stats
  painted,          \* layer.paintRecords after PaintRecordGenerator.generate
  madeLayer,        \* the last new Layer({opacity: o}): the option and layer.opacity
  \* ---- PaintRecordGenerator (PaintRecordGenerator.js) ----
  pLayers,          \* the layers of the tree: [node, paintRecords], the root first
  pStats,           \* generator.stats without the timing
  pDone,            \* generate has returned
  \* ---- RenderEngine (RenderEngine.js) ----
  currentLayerTree, \* engine.currentLayerTree is set
  lastRenderTree,   \* engine.lastRenderTree
  eCall,            \* history: the last call of render or incrementalRender
  \* ---- Layer.dispose (Layer.js) ----
  layerRecords,     \* layer.paintRecords.length
  backingStore,     \* layer.backingStore is not null
  dLast,            \* history: the last dispose() and the children it found
  \* ---- Tile.dispose and the raster cache (TilingManager.js, Rasterizer.js) ----
  canvases,         \* the canvases created so far: what was drawn, and whether cleared since
  managed,          \* TilingManager.tiles: the tile is there, and its rasterizedContent (a canvas)
  bufferCache,      \* Rasterizer.rasterCache: signature -> the canvas of the cached buffer
  layerPaint,       \* layer.paintRecords of the layer of the tiles
  rasterCalls,      \* rasterizeTile calls waiting for rasterizeAsync, oldest first
  xLast,            \* history: the last step on tiles and canvases
  \* ---- Compositor.preprocessLayers (Compositor.js) and Layer.getAbsoluteBounds ----
  lBounds,          \* Layer.bounds
  lTransform,       \* Layer.transform
  absoluteBounds,   \* Layer.absoluteBounds, as the compositor left it
  bLast,            \* history: the last step was preprocessLayers or a change
  \* ---- GPUSimulator.drawSingleQuad (GPUSimulator.js) ----
  context,          \* the CanvasRenderingContext2D handed to renderFrame: state stack, globalAlpha, translation
  ctxQuads,         \* GPUSimulator.drawQuads, with opacity and transform
  ctxBatch,         \* GPUSimulator.currentBatch without its quads
  kLast,            \* history: the last call, the state each quad was drawn in, whether it threw
  \* ---- PaintRecordGenerator.mergeSimilarRecordsInLayer (PaintRecordGenerator.js) ----
  mRecords,         \* layer.paintRecords of the layer of the merge pass
  mLast             \* history: the last call and layer.paintRecords before it

layerVars == <<created, allLayers, parent, children, zIndex, pushOrder>>
tilingVars == <<tiles, layerTiles, tileAccessOrder, currentMemoryUsage, tCacheHits, gen, tLast>>
rasterVars == <<paintRecords, tileContent, tileDirty, rasterCache, currentCacheSize,
                rCacheHits, workerBusy, inFlight, rLast>>
gpuVars == <<enableBatching, drawQuads, currentBatch, stats, gFrame>>
compositorVars == <<enableTiling, layerOptions, needsRepaint, recordX, cTiles, cCache,
                    cWorkerBusy, cInFlight, surface, cStats, cLast>>

calculatorVars == <<layoutTree, calc, painted, madeLayer>>
generatorVars == <<pLayers, pStats, pDone>>
engineVars == <<currentLayerTree, lastRenderTree, eCall>>
disposeVars == <<layerRecords, backingStore, dLast>>
canvasVars == <<canvases, managed, bufferCache, layerPaint, rasterCalls, xLast>>
boundsVars == <<lBounds, lTransform, absoluteBounds, bLast>>
contextVars == <<context, ctxQuads, ctxBatch, kLast>>
mergeVars == <<mRecords, mLast>>

(* ------------------------------ helpers -------------------------------- *)
Range(s) == {s[i] : i \in 1..Len(s)}

\* Array.prototype.indexOf, 1-based; 0 when absent
IndexOf(s, e) ==
  IF \E i \in 1..Len(s) : s[i] = e
    THEN CHOOSE i \in 1..Len(s) : s[i] = e /\ \A j \in 1..(i-1) : s[j] # e
    ELSE 0

\* Array.prototype.splice(index, 1)
SpliceAt(s, i) == [k \in 1..(Len(s)-1) |-> IF k < i THEN s[k] ELSE s[k+1]]

\* removal of the first occurrence, if any
RemoveFirst(s, e) == IF IndexOf(s, e) = 0 THEN s ELSE SpliceAt(s, IndexOf(s, e))

(* ------------------------------ Layer ---------------------------------- *)
Root == 0
NoLayer == -1
Layers == 0..NumLayers
ZValues == 0..MaxZ

\* children.sort((a, b) => a.zIndex - b.zIndex): a stable sort by z-index
RECURSIVE InsertByZ(_, _, _)
InsertByZ(e, s, z) ==
  IF s = <<>> THEN <<e>>
  ELSE IF z[e] <= z[Head(s)] THEN <<e>> \o s
  ELSE <<Head(s)>> \o InsertByZ(e, Tail(s), z)

RECURSIVE SortByZ(_, _)
SortByZ(s, z) ==
  IF s = <<>> THEN <<>> ELSE InsertByZ(Head(s), SortByZ(Tail(s), z), z)

\* The tree state the Layer methods work on, as one record
LayerState == [parent |-> parent, children |-> children, pushOrder |-> pushOrder]

\* Layer.removeChild(child) on layer p
RemoveChildOp(s, p, c) ==
  IF IndexOf(s.children[p], c) # 0
    THEN [s EXCEPT !.children[p] = SpliceAt(@, IndexOf(@, c)),
                   !.pushOrder[p] = RemoveFirst(@, c),
                   !.parent[c] = NoLayer]
    ELSE s

\* Layer.addChild(child) on layer p
AddChildOp(s, p, c, z) ==
  LET s1 == IF s.parent[c] # NoLayer THEN RemoveChildOp(s, s.parent[c], c) ELSE s
      s2 == [s1 EXCEPT !.parent[c] = p]
  IN  [s2 EXCEPT !.children[p] = SortByZ(Append(@, c), z),
                 !.pushOrder[p] = Append(@, c)]

\* the layers Layer.dispose() visits from l: l and everything below it through children
RECURSIVE Below(_, _, _)
Below(ch, l, fuel) ==
  IF fuel = 0 THEN {l}
  ELSE {l} \cup UNION {Below(ch, ch[l][i], fuel - 1) : i \in 1..Len(ch[l])}

\* following children from l never comes back to a layer already on the path
RECURSIVE NoCycleBelow(_, _, _)
NoCycleBelow(ch, l, path) ==
  /\ l \notin path
  /\ \A i \in 1..Len(ch[l]) : NoCycleBelow(ch, ch[l][i], path \cup {l})

\* Layer.dispose(): children lists of l and of every layer below it are emptied;
\* the parent fields of the former children are left as they are
DisposeOp(s, l) ==
  LET gone == Below(s.children, l, NumLayers + 1)
  IN  [s EXCEPT !.children = [x \in Layers |-> IF x \in gone THEN <<>> ELSE s.children[x]],
                !.pushOrder = [x \in Layers |-> IF x \in gone THEN <<>> ELSE s.pushOrder[x]]]

\* LayerTreeCalculator.mergeLayers(parent, child): the grandchildren are pushed on
\* the parent's children (no sort), the child is removed and disposed
RECURSIVE MoveGrandChildren(_, _, _, _)
MoveGrandChildren(s, p, c, i) ==
  IF i > Len(s.children[c]) THEN s
  ELSE LET g == s.children[c][i]
       IN  MoveGrandChildren([s EXCEPT !.parent[g] = p,
                                       !.children[p] = Append(@, g),
                                       !.pushOrder[p] = Append(@, g)], p, c, i + 1)

MergeLayersOp(s, p, c) ==
  DisposeOp(RemoveChildOp(MoveGrandChildren(s, p, c, 1), p, c), c)

\* the callback of removeUnnecessaryLayers. Every layer of this specification has
\* the constructor's opacity 1.0, identity transform and clipRect null, so what is
\* left of the condition is children.length === 1
RemoveUnnecessaryCallback(s, layer) ==
  IF Len(s.children[layer]) = 1
    THEN MergeLayersOp(s, layer, s.children[layer][1])
    ELSE s

\* LayerTree.traverseLayers(callback) under removeUnnecessaryLayers: callback(layer),
\* then the children of the layer as they are after the callback
RECURSIVE TraverseMerge(_, _, _)
RECURSIVE TraverseMergeChildren(_, _, _, _)
TraverseMerge(s, layer, fuel) ==
  LET s1 == RemoveUnnecessaryCallback(s, layer)
  IN  IF fuel = 0 THEN s1 ELSE TraverseMergeChildren(s1, layer, 1, fuel - 1)
TraverseMergeChildren(s, layer, i, fuel) ==
  IF i > Len(s.children[layer]) THEN s
  ELSE TraverseMergeChildren(TraverseMerge(s, s.children[layer][i], fuel), layer, i + 1, fuel)

\* reorderLayers: every layer the traversal reaches from the root sorts its children
ReorderLayersOp(s, z) ==
  LET reach == Below(s.children, Root, NumLayers + 1)
  IN  [s EXCEPT !.children = [x \in Layers |->
                                IF x \in reach THEN SortByZ(s.children[x], z)
                                                ELSE s.children[x]]]

\* optimizeLayerTree: removeUnnecessaryLayers, mergeCompatibleLayers (empty), reorderLayers
OptimizeLayerTreeOp(s, z) == ReorderLayersOp(TraverseMerge(s, Root, NumLayers + 1), z)

InitLayer ==
  /\ created = {Root}
  /\ allLayers = {Root}
  /\ parent = [l \in Layers |-> NoLayer]
  /\ children = [l \in Layers |-> <<>>]
  /\ zIndex = [l \in Layers |-> 0]
  /\ pushOrder = [l \in Layers |-> <<>>]

\* LayerTree.createLayer({zIndex: z}); ids are handed out in order (nextLayerId++)
CreateLayer(l, z) ==
  /\ l \notin created
  /\ \A k \in 1..(l-1) : k \in created
  /\ created' = created \cup {l}
  /\ allLayers' = allLayers \cup {l}
  /\ zIndex' = [zIndex EXCEPT ![l] = z]
  /\ UNCHANGED <<parent, children, pushOrder>>

AddChild(p, c) ==
  /\ p \in created /\ c \in created
  /\ LET s == AddChildOp(LayerState, p, c, zIndex)
     IN  /\ parent' = s.parent
         /\ children' = s.children
         /\ pushOrder' = s.pushOrder
  /\ UNCHANGED <<created, allLayers, zIndex>>

RemoveChild(p, c) ==
  /\ p \in created /\ c \in created
  /\ LET s == RemoveChildOp(LayerState, p, c)
     IN  /\ parent' = s.parent
         /\ children' = s.children
         /\ pushOrder' = s.pushOrder
  /\ UNCHANGED <<created, allLayers, zIndex>>

\* LayerTree.removeLayer(layer)
RemoveLayer(l) ==
  /\ l \in created
  /\ LET s1 == IF parent[l] # NoLayer THEN RemoveChildOp(LayerState, parent[l], l)
                                      ELSE LayerState
         \* dispose() of a layer that can reach itself recurses until the stack
         \* overflows: the error leaves before any children list is emptied
         s2 == IF NoCycleBelow(s1.children, l, {}) THEN DisposeOp(s1, l) ELSE s1
     IN  /\ parent' = s2.parent
         /\ children' = s2.children
         /\ pushOrder' = s2.pushOrder
  /\ allLayers' = allLayers \ {l}
  /\ UNCHANGED <<created, zIndex>>

\* layer.zIndex = z (a plain field: no setter, no re-sort of the parent's children)
SetZIndex(l, z) ==
  /\ l \in created
  /\ zIndex[l] # z
  /\ zIndex' = [zIndex EXCEPT ![l] = z]
  /\ UNCHANGED <<created, allLayers, parent, children, pushOrder>>

\* The builder's optimization pass on the tree (LayerTreeCalculator.optimizeLayerTree).
\* A tree in which the root reaches a layer twice makes the traversal recurse without
\* end; the pass is taken on the other trees.
OptimizeLayerTree ==
  /\ NoCycleBelow(children, Root, {})
  /\ LET s == OptimizeLayerTreeOp(LayerState, zIndex)
     IN  /\ parent' = s.parent
         /\ children' = s.children
         /\ pushOrder' = s.pushOrder
  /\ UNCHANGED <<created, allLayers, zIndex>>

NextLayer ==
  \/ \E l \in Layers, z \in ZValues : CreateLayer(l, z)
  \/ \E p \in Layers, c \in Layers : AddChild(p, c)
  \/ \E p \in Layers, c \in Layers : RemoveChild(p, c)
  \/ \E l \in Layers : RemoveLayer(l)
  \/ \E l \in Layers, z \in ZValues : SetZIndex(l, z)
  \/ OptimizeLayerTree

(* --------------------------- TilingManager ----------------------------- *)
\* Tile.priority, accessCount and the time stamps are derived or statistics that no
\* TilingManager decision reads; they are left out. A layer is the argument of
\* generateTilesForLayer / getOrCreateTile: its bounds and absoluteBounds are read at
\* the call. The layers are as constructed: needsRepaint true, dirtyRegion null.
TileLayers == 1..NumTileLayers

Rect(x, y, w, h) == [set |-> TRUE, x |-> x, y |-> y, width |-> w, height |-> h]
NoRect == [set |-> FALSE, x |-> 0, y |-> 0, width |-> 0, height |-> 0]

\* bounds a layer may have when it is tiled
WideBounds == Rect(0, 0, TileSize + 1, TileSize)
NarrowBounds == Rect(0, 0, 1, TileSize)
LayerBounds == {WideBounds, NarrowBounds}
\* a layer as it is tiled: its bounds, and its absoluteBounds, which are undefined
\* before the first composite and else the bounds moved by the parent's position
OffsetBounds == Rect(1, 0, TileSize, TileSize)
LayerGeometries ==
  {[bounds |-> WideBounds, abs |-> NoRect],
   [bounds |-> NarrowBounds, abs |-> NoRect],
   [bounds |-> OffsetBounds, abs |-> NoRect]}

Min(a, b) == IF a < b THEN a ELSE b
\* Math.floor(n / d) * d and Math.ceil(n / d) * d for d > 0
FloorTo(n, d) == (n \div d) * d
CeilTo(n, d) == (-((-n) \div d)) * d

TileKey(layerId, x, y) == <<layerId, x \div TileSize, y \div TileSize>>
KeyOfTile(t) == <<t.layer, t.tileX, t.tileY>>

\* Tile.intersectsRect(rect)
TileIntersectsRect(t, r) ==
  ~(t.x > r.x + r.width \/ r.x > t.x + t.width \/ t.y > r.y + r.height \/ r.y > t.y + t.height)

\* estimateTileMemoryUsage(tile)
EstimateTileMemoryUsage(t) == t.width * t.height * 4

TilingState == [tiles |-> tiles, layerTiles |-> layerTiles, order |-> tileAccessOrder,
                mem |-> currentMemoryUsage, evicted |-> 0]

Restrict(f, S) == [k \in S |-> f[k]]

\* a removeTile that leaves tileAccessOrder as it is
RemoveTileOpKeepingOrder(ts, key) ==
  IF key \in DOMAIN ts.tiles
    THEN LET tile == ts.tiles[key]
         IN  [ts EXCEPT !.tiles = Restrict(@, DOMAIN @ \ {key}),
                        !.layerTiles[tile.layer] = @ \ {key},
                        !.mem = @ - EstimateTileMemoryUsage(tile)]
    ELSE ts

\* removeTile(key)
RemoveTileOp(ts, key) ==
  IF key \in DOMAIN ts.tiles
    THEN LET tile == ts.tiles[key]
         IN  [ts EXCEPT !.tiles = Restrict(@, DOMAIN @ \ {key}),
                        !.layerTiles[tile.layer] = @ \ {key},
                        !.order = RemoveFirst(@, key),
                        !.mem = @ - EstimateTileMemoryUsage(tile)]
    ELSE ts

\* updateTileAccessOrder(tile)
UpdateTileAccessOrder(order, key) == Append(RemoveFirst(order, key), key)

\* enforceMemoryLimit()
\* enforceMemoryLimit with `if` in place of `while`: at most one tile leaves
EnforceMemoryLimitOnce(ts) ==
  IF ts.mem > MaxMemoryUsage /\ Len(ts.order) > 0
    THEN LET key == Head(ts.order)
             ts1 == [ts EXCEPT !.order = Tail(@)]
         IN  IF key \in DOMAIN ts1.tiles
               THEN [RemoveTileOp(ts1, key) EXCEPT !.evicted = @ + 1]
               ELSE ts1
    ELSE ts

RECURSIVE EnforceMemoryLimit(_)
EnforceMemoryLimit(ts) ==
  IF ts.mem > MaxMemoryUsage /\ Len(ts.order) > 0
    THEN LET key == Head(ts.order)
             ts1 == [ts EXCEPT !.order = Tail(@)]
         IN  EnforceMemoryLimit(
               IF key \in DOMAIN ts1.tiles
                 THEN [RemoveTileOp(ts1, key) EXCEPT !.evicted = @ + 1]
                 ELSE ts1)
    ELSE ts

\* the Tile that getOrCreateTile(x, y, layer) constructs
NewTile(x, y, layerId, b) ==
  [x |-> x, y |-> y,
   width |-> Min(TileSize, b.x + b.width - x),
   height |-> Min(TileSize, b.y + b.height - y),
   layer |-> layerId, tileX |-> x \div TileSize, tileY |-> y \div TileSize,
   isDirty |-> TRUE]

\* getOrCreateTile(x, y, layer), the branch that creates
CreateTileOp(ts, x, y, layerId, b) ==
  LET key == TileKey(layerId, x, y)
      tile == NewTile(x, y, layerId, b)
      ts1 == [ts EXCEPT !.tiles = [k \in DOMAIN @ \cup {key} |-> IF k = key THEN tile ELSE @[k]],
                        !.layerTiles[layerId] = @ \cup {key},
                        !.order = UpdateTileAccessOrder(@, key),
                        !.mem = @ + EstimateTileMemoryUsage(tile)]
  IN  EnforceMemoryLimit(ts1)

\* getOrCreateTile(x, y, layer), the branch that finds the tile
HitTileOp(ts, key) == ts

\* the grid cells of generateTilesForLayer, rows first
GridCellsOf(b, tileSize) ==
  LET startX == FloorTo(b.x, tileSize)
      startY == FloorTo(b.y, tileSize)
      endX == CeilTo(b.x + b.width, tileSize)
      endY == CeilTo(b.y + b.height, tileSize)
      nx == (endX - startX) \div tileSize
      ny == (endY - startY) \div tileSize
  IN  [i \in 1..(nx * ny) |->
         <<startX + ((i - 1) % nx) * tileSize, startY + ((i - 1) \div nx) * tileSize>>]

\* a loop that stops at the last whole tile: endX and endY rounded down
GridCellsOfWholeTiles(b) ==
  LET startX == FloorTo(b.x, TileSize)
      startY == FloorTo(b.y, TileSize)
      endX == FloorTo(b.x + b.width, TileSize)
      endY == FloorTo(b.y + b.height, TileSize)
      nx == (endX - startX) \div TileSize
      ny == (endY - startY) \div TileSize
  IN  [i \in 1..(nx * ny) |->
         <<startX + ((i - 1) % nx) * TileSize, startY + ((i - 1) \div nx) * TileSize>>]

GridCells(b) == GridCellsOf(b, TileSize)

\* cleanupUnusedTiles(layer): the layer's tiles outside the grid are removed
RECURSIVE RemoveTiles(_, _)
RemoveTiles(ts, keys) ==
  IF keys = {} THEN ts
  ELSE LET k == CHOOSE k \in keys : TRUE
       IN  RemoveTiles(RemoveTileOp(ts, k), keys \ {k})

CleanupUnusedTiles(ts, layerId, b) ==
  LET startX == FloorTo(b.x, TileSize)
      startY == FloorTo(b.y, TileSize)
      endX == CeilTo(b.x + b.width, TileSize)
      endY == CeilTo(b.y + b.height, TileSize)
      out == {k \in ts.layerTiles[layerId] :
                /\ k \in DOMAIN ts.tiles
                /\ LET t == ts.tiles[k]
                   IN  t.x < startX \/ t.x >= endX \/ t.y < startY \/ t.y >= endY}
  IN  RemoveTiles(ts, out)

NoGen == [active |-> FALSE, layer |-> 0, bounds |-> NoRect, grid |-> NoRect,
          cells |-> <<>>, needsRepaint |-> FALSE, dirtyRegion |-> NoRect, returned |-> <<>>]
\* returned and grid: the array a finished generateTilesForLayer returned, and the
\* bounds it was computed from
NoOp == [op |-> "none", key |-> <<>>, evicted |-> 0, returned |-> <<>>, grid |-> NoRect]

InitTiling ==
  /\ tiles = <<>>
  /\ layerTiles = [l \in TileLayers |-> {}]
  /\ tileAccessOrder = <<>>
  /\ currentMemoryUsage = 0
  /\ tCacheHits = 0
  /\ gen = NoGen
  /\ tLast = NoOp

SetTilingState(ts) ==
  /\ tiles' = ts.tiles
  /\ layerTiles' = ts.layerTiles
  /\ tileAccessOrder' = ts.order
  /\ currentMemoryUsage' = ts.mem

\* getOrCreateTile(x, y, layer) for a layer with bounds b
GetOrCreateTileStep(x, y, layerId, b) ==
  LET key == TileKey(layerId, x, y)
  IN  IF key \in DOMAIN tiles
        THEN /\ tCacheHits < MaxCount
             /\ SetTilingState(HitTileOp(TilingState, key))
             /\ tCacheHits' = tCacheHits + 1
             /\ tLast' = [NoOp EXCEPT !.op = "hit", !.key = key]
        ELSE LET ts == CreateTileOp(TilingState, x, y, layerId, b)
             IN  /\ SetTilingState(ts)
                 /\ tCacheHits' = tCacheHits
                 /\ tLast' = [NoOp EXCEPT !.op = "create", !.key = key, !.evicted = ts.evicted]

\* a direct call of getOrCreateTile
GetOrCreateTile(x, y, layerId, b) ==
  /\ ~gen.active
  /\ GetOrCreateTileStep(x, y, layerId, b)
  /\ UNCHANGED gen

\* generateTilesForLayer(layer, viewport): the grid is computed
GenerateStart(layerId, b, abs) ==
  /\ ~gen.active
  /\ gen' = [active |-> TRUE, layer |-> layerId, bounds |-> b,
             grid |-> IF abs.set THEN abs ELSE b,
             cells |-> GridCells(IF abs.set THEN abs ELSE b),
             needsRepaint |-> TRUE, dirtyRegion |-> NoRect, returned |-> <<>>]
  /\ tLast' = [NoOp EXCEPT !.op = "generate"]
  /\ UNCHANGED <<tiles, layerTiles, tileAccessOrder, currentMemoryUsage, tCacheHits>>

\* one round of the loop: getOrCreateTile, then markDirty when the layer needs a
\* repaint or shouldUpdateTile says so
GenerateCell ==
  /\ gen.active /\ gen.cells # <<>>
  /\ LET x == Head(gen.cells)[1]
         y == Head(gen.cells)[2]
         key == TileKey(gen.layer, x, y)
         wasThere == key \in DOMAIN tiles
         ts == IF wasThere THEN HitTileOp(TilingState, key)
                           ELSE CreateTileOp(TilingState, x, y, gen.layer, gen.bounds)
         mark(t) == \/ gen.needsRepaint
                    \/ t.isDirty
                    \/ (gen.dirtyRegion.set /\ TileIntersectsRect(t, gen.dirtyRegion))
         ts2 == IF key \in DOMAIN ts.tiles
                  THEN [ts EXCEPT !.tiles[key].isDirty = mark(ts.tiles[key])]
                  ELSE ts
     IN  /\ wasThere => tCacheHits < MaxCount
         /\ SetTilingState(ts2)
         /\ tCacheHits' = IF wasThere THEN tCacheHits + 1 ELSE tCacheHits
         /\ tLast' = [NoOp EXCEPT !.op = IF wasThere THEN "hit" ELSE "create", !.key = key,
                                   !.evicted = ts.evicted]
         \* tiles.push(tile), the tile getOrCreateTile returned
         /\ LET tile == IF wasThere THEN tiles[key] ELSE NewTile(x, y, gen.layer, gen.bounds)
            IN  gen' = [gen EXCEPT !.cells = Tail(@),
                                   !.returned = Append(@, [key |-> key, x |-> tile.x, y |-> tile.y])]

\* the end of generateTilesForLayer: cleanupUnusedTiles(layer)
GenerateFinish ==
  /\ gen.active /\ gen.cells = <<>>
  /\ SetTilingState(CleanupUnusedTiles(TilingState, gen.layer, gen.grid))
  /\ gen' = NoGen
  /\ tLast' = [NoOp EXCEPT !.op = "cleanup", !.returned = gen.returned, !.grid = gen.grid]
  /\ UNCHANGED tCacheHits

\* removeTile(key)
RemoveTile(key) ==
  /\ ~gen.active
  /\ key \in DOMAIN tiles
  /\ SetTilingState(RemoveTileOp(TilingState, key))
  /\ tLast' = [NoOp EXCEPT !.op = "remove", !.key = key]
  /\ UNCHANGED <<tCacheHits, gen>>

NextTiling ==
  \/ \E l \in TileLayers, g \in LayerGeometries :
       \E c \in Range(GridCells(IF g.abs.set THEN g.abs ELSE g.bounds)) :
         GetOrCreateTile(c[1], c[2], l, g.bounds)
  \/ \E l \in TileLayers, g \in LayerGeometries : GenerateStart(l, g.bounds, g.abs)
  \/ GenerateCell
  \/ GenerateFinish
  \/ \E k \in DOMAIN tiles : RemoveTile(k)

(* ----------------------------- Rasterizer ------------------------------- *)
\* The tiles are tiles 0..NumRasterTiles-1 of one row of one layer, each TileSize wide
\* and high; every paint record is visible and covers the layer, so each is drawn in
\* each tile. A buffer is modelled by its pixel content: the (type, fillStyle) of the
\* records drawn into it, in order. Caching is enabled (the default). Of the
\* statistics only cacheHits is kept.
RasterTiles == 1..NumRasterTiles
Workers == 1..MaxWorkers
RecordTypes == {"rect", "text"}
FillStyles == {"red", "blue"}
RasterLayerId == "layer_1"
EnableCaching == TRUE

NoContent == [set |-> FALSE, pixels |-> <<>>]
Buffer(pixels) == [set |-> TRUE, pixels |-> pixels]

\* rasterizeSync / rasterizePaintRecords: the records are executed in order
DrawRecords(records) == [i \in 1..Len(records) |-> <<records[i].type, records[i].fillStyle>>]

\* calculateLayerContentHash(layer): the number of records, then their types
CalculateLayerContentHash(records) ==
  <<Len(records)>> \o [i \in 1..Len(records) |-> records[i].type]

\* generateTileSignature(tile)
GenerateTileSignature(t, records) ==
  <<RasterLayerId, t - 1, 0, CalculateLayerContentHash(records)>>

\* buffer.width * buffer.height * 4
BufferSize == TileSize * TileSize * 4

\* rasterCache.get(signature): the index of the entry, 0 when absent
CacheIndex(cache, sig) ==
  IF \E i \in 1..Len(cache) : cache[i].sig = sig
    THEN CHOOSE i \in 1..Len(cache) : cache[i].sig = sig
    ELSE 0

\* getCachedRasterBuffer(tile)
GetCachedRasterBuffer(cache, t, records) ==
  LET i == CacheIndex(cache, GenerateTileSignature(t, records))
  IN  IF i = 0 THEN NoContent ELSE cache[i].buffer

RasterState == [cache |-> rasterCache, size |-> currentCacheSize]

\* evictLeastRecentlyUsed(requiredSize): entries leave in insertion order until
\* enough bytes are freed
RECURSIVE EvictLeastRecentlyUsed(_, _, _)
EvictLeastRecentlyUsed(rs, requiredSize, freedSpace) ==
  IF rs.cache = <<>> \/ freedSpace >= requiredSize THEN rs
  ELSE EvictLeastRecentlyUsed([cache |-> Tail(rs.cache), size |-> rs.size - BufferSize],
                              requiredSize, freedSpace + BufferSize)

\* Map.set that only replaces the buffer of a key already present
CacheSetExistingOnly(cache, sig, buffer) ==
  IF CacheIndex(cache, sig) = 0
    THEN cache
    ELSE [cache EXCEPT ![CacheIndex(cache, sig)].buffer = buffer]

\* Map.set: an existing key keeps its place
CacheSet(cache, sig, buffer) ==
  IF CacheIndex(cache, sig) = 0
    THEN Append(cache, [sig |-> sig, buffer |-> buffer])
    ELSE [cache EXCEPT ![CacheIndex(cache, sig)].buffer = buffer]

\* cacheRasterBuffer(tile, buffer)
CacheRasterBuffer(rs, t, records, buffer) ==
  LET rs1 == IF rs.size + BufferSize > MaxCacheSize
               THEN EvictLeastRecentlyUsed(rs, BufferSize, 0)
               ELSE rs
  IN  [cache |-> CacheSet(rs1.cache, GenerateTileSignature(t, records), buffer),
       size |-> rs1.size + BufferSize]

\* workerPool.find(worker => !worker.busy): 0 when every worker is busy
AvailableWorker(busy) ==
  IF \E w \in Workers : ~busy[w]
    THEN CHOOSE w \in Workers : ~busy[w] /\ \A v \in 1..(w-1) : busy[v]
    ELSE 0

NoRasterOp == [op |-> "none", tile |-> 0, ret |-> NoContent]

InitRaster ==
  /\ paintRecords = <<>>
  /\ tileContent = [t \in RasterTiles |-> NoContent]
  /\ tileDirty = [t \in RasterTiles |-> TRUE]
  /\ rasterCache = <<>>
  /\ currentCacheSize = 0
  /\ rCacheHits = 0
  /\ workerBusy = [w \in Workers |-> FALSE]
  /\ inFlight = <<>>
  /\ rLast = NoRasterOp

\* layer.addPaintRecord(record)
AddPaintRecord(type, fill) ==
  /\ Len(paintRecords) < MaxRecords
  /\ paintRecords' = Append(paintRecords, [type |-> type, fillStyle |-> fill])
  /\ rLast' = [NoRasterOp EXCEPT !.op = "addPaintRecord"]
  /\ UNCHANGED <<tileContent, tileDirty, rasterCache, currentCacheSize, rCacheHits,
                 workerBusy, inFlight>>

\* record.fillStyle = fill on the i-th record of the layer
SetFillStyle(i, fill) ==
  /\ i \in 1..Len(paintRecords)
  /\ paintRecords[i].fillStyle # fill
  /\ paintRecords' = [paintRecords EXCEPT ![i].fillStyle = fill]
  /\ rLast' = [NoRasterOp EXCEPT !.op = "setFillStyle"]
  /\ UNCHANGED <<tileContent, tileDirty, rasterCache, currentCacheSize, rCacheHits,
                 workerBusy, inFlight>>

\* what rasterizeTile does after `await this.rasterizeAsync(tile)` has a buffer
FinishRasterize(t, buffer) ==
  LET rs == IF EnableCaching
              THEN CacheRasterBuffer(RasterState, t, paintRecords, buffer)
              ELSE RasterState
  IN  /\ rasterCache' = rs.cache
      /\ currentCacheSize' = rs.size
      /\ tileContent' = [tileContent EXCEPT ![t] = buffer]
      /\ tileDirty' = [tileDirty EXCEPT ![t] = FALSE]

\* rasterizeTile(tile) up to its await. A cached buffer is returned at once. Else
\* rasterizeAsync hands the tile to a free worker (setTimeout), or with no free worker
\* calls rasterizeSync itself, which draws or throws.
RasterizeTile(t, throws) ==
  /\ Len(inFlight) < MaxCalls
  /\ LET cached == GetCachedRasterBuffer(rasterCache, t, paintRecords)
         w == AvailableWorker(workerBusy)
         sig == GenerateTileSignature(t, paintRecords)
     IN  IF EnableCaching /\ cached.set
           THEN /\ ~throws
                /\ rCacheHits < MaxHits
                /\ rCacheHits' = rCacheHits + 1
                /\ tileContent' = [tileContent EXCEPT ![t] = cached]
                /\ tileDirty' = [tileDirty EXCEPT ![t] = FALSE]
                /\ rLast' = [op |-> "hit", tile |-> t, ret |-> cached]
                /\ UNCHANGED <<rasterCache, currentCacheSize, workerBusy, inFlight>>
           ELSE IF w # 0
             THEN /\ ~throws
                  /\ workerBusy' = [workerBusy EXCEPT ![w] = TRUE]
                  /\ inFlight' = Append(inFlight, [tile |-> t, sig |-> sig, pc |-> "queued",
                                                   worker |-> w, result |-> NoContent])
                  /\ rLast' = [op |-> "miss", tile |-> t, ret |-> NoContent]
                  /\ UNCHANGED <<tileContent, tileDirty, rasterCache, currentCacheSize,
                                 rCacheHits>>
             ELSE /\ inFlight' = Append(inFlight,
                        [tile |-> t, sig |-> sig, pc |-> IF throws THEN "rejected" ELSE "resolved",
                         worker |-> 0,
                         result |-> IF throws THEN NoContent
                                              ELSE Buffer(DrawRecords(paintRecords))])
                  /\ rLast' = [op |-> "miss", tile |-> t, ret |-> NoContent]
                  /\ UNCHANGED <<tileContent, tileDirty, rasterCache, currentCacheSize,
                                 rCacheHits, workerBusy>>
  /\ UNCHANGED paintRecords

\* a call whose promise is settled: the microtask that resumes it is pending
Settled(c) == c.pc \in {"resolved", "rejected"}
Queued(c) == c.pc = "queued"

\* the oldest settled call and the oldest queued job, 0 when there is none
FirstSettled(calls) ==
  IF \E i \in 1..Len(calls) : Settled(calls[i])
    THEN CHOOSE i \in 1..Len(calls) : Settled(calls[i]) /\ \A j \in 1..(i-1) : ~Settled(calls[j])
    ELSE 0
FirstQueued(calls) ==
  IF \E i \in 1..Len(calls) : Queued(calls[i])
    THEN CHOOSE i \in 1..Len(calls) : Queued(calls[i]) /\ \A j \in 1..(i-1) : ~Queued(calls[j])
    ELSE 0

\* the rest of rasterizeTile for the oldest settled call: the buffer is cached and
\* put on the tile, or the catch block returns null
ResumeRasterize ==
  LET i == FirstSettled(inFlight)
  IN  /\ i # 0
      /\ LET c == inFlight[i]
         IN  IF c.pc = "resolved"
               THEN /\ FinishRasterize(c.tile, c.result)
                    /\ rLast' = [op |-> "done", tile |-> c.tile, ret |-> c.result]
               ELSE /\ rLast' = [op |-> "failed", tile |-> c.tile, ret |-> NoContent]
                    /\ UNCHANGED <<tileContent, tileDirty, rasterCache, currentCacheSize>>
      /\ inFlight' = SpliceAt(inFlight, i)
      /\ UNCHANGED <<paintRecords, rCacheHits, workerBusy>>

\* worker.rasterize(tile, callback): the result the timer callback hands to
\* callback is rasterizeSync(tile)
WorkerRasterizeNothing(records) == Buffer(<<>>)
WorkerRasterizeResult(records) == Buffer(DrawRecords(records))

\* the timer of the oldest queued job fires: the worker calls rasterizeSync. When it
\* returns, the callback frees the worker and resolves the promise, and the call
\* resumes before anything else runs. When it throws, the error leaves the timer
\* callback: the callback is never called.
WorkerRasterize(throws) ==
  LET i == FirstQueued(inFlight)
  IN  /\ i # 0
      /\ FirstSettled(inFlight) = 0
      /\ LET c == inFlight[i]
             buffer == WorkerRasterizeResult(paintRecords)
         IN  IF throws
               THEN /\ inFlight' = [inFlight EXCEPT ![i].pc = "lost"]
                    /\ rLast' = [op |-> "lost", tile |-> c.tile, ret |-> NoContent]
                    /\ UNCHANGED <<tileContent, tileDirty, rasterCache, currentCacheSize,
                                   workerBusy>>
               ELSE /\ workerBusy' = [workerBusy EXCEPT ![c.worker] = FALSE]
                    /\ FinishRasterize(c.tile, buffer)
                    /\ inFlight' = SpliceAt(inFlight, i)
                    /\ rLast' = [op |-> "done", tile |-> c.tile, ret |-> buffer]
      /\ UNCHANGED <<paintRecords, rCacheHits>>

\* clearCache()
ClearCache ==
  /\ rasterCache # <<>> \/ currentCacheSize # 0
  /\ rasterCache' = <<>>
  /\ currentCacheSize' = 0
  /\ rLast' = [NoRasterOp EXCEPT !.op = "clearCache"]
  /\ UNCHANGED <<paintRecords, tileContent, tileDirty, rCacheHits, workerBusy, inFlight>>

NextRaster ==
  \/ \E type \in RecordTypes, fill \in FillStyles : AddPaintRecord(type, fill)
  \/ \E i \in 1..MaxRecords, fill \in FillStyles : SetFillStyle(i, fill)
  \/ \E t \in RasterTiles, throws \in BOOLEAN : RasterizeTile(t, throws)
  \/ ResumeRasterize
  \/ \E throws \in BOOLEAN : WorkerRasterize(throws)

\* the Rasterizer whose owner also calls clearCache
NextRasterCache ==
  \/ NextRaster
  \/ ClearCache

(* ---------------------------- GPUSimulator ------------------------------ *)
\* Quads keep the identity transform and differ in position.x, visibility and the
\* three batching keys. A quad is named by its index in drawQuads.
Viewport == [x |-> 0, y |-> 0, width |-> ViewportSize, height |-> ViewportSize]

QuadOptions ==
  {[shader |-> "default", texture |-> "none", blendMode |-> "source-over", visible |-> TRUE,  x |-> 0],
   [shader |-> "default", texture |-> "none", blendMode |-> "multiply",    visible |-> TRUE,  x |-> 0],
   [shader |-> "default", texture |-> "tex",  blendMode |-> "source-over", visible |-> TRUE,  x |-> 0],
   [shader |-> "texture", texture |-> "none", blendMode |-> "source-over", visible |-> TRUE,  x |-> 0],
   [shader |-> "default", texture |-> "none", blendMode |-> "source-over", visible |-> FALSE, x |-> 0],
   [shader |-> "default", texture |-> "none", blendMode |-> "source-over", visible |-> TRUE,
    x |-> ViewportSize + 1]}

\* new DrawQuad(options)
DrawQuad(o) ==
  [shader |-> o.shader, texture |-> o.texture, blendMode |-> o.blendMode,
   visible |-> o.visible, x |-> o.x, needsUpdate |-> TRUE]

\* quad.getBounds() under the identity transform
GetBounds(quad) == [x |-> quad.x, y |-> 0, width |-> QuadSize, height |-> QuadSize]

\* quad.intersectsViewport(viewport)
IntersectsViewport(quad, viewport) ==
  LET bounds == GetBounds(quad)
  IN  ~(\/ bounds.x > viewport.x + viewport.width
        \/ bounds.x + bounds.width < viewport.x
        \/ bounds.y > viewport.y + viewport.height
        \/ bounds.y + bounds.height < viewport.y)

EmptyBatch == [quads |-> <<>>, shader |-> "default", texture |-> "none",
               blendMode |-> "source-over"]

\* canBatchWithCurrent without the comparison of blend modes
CanBatchIgnoringBlendMode(batch, quad) ==
  IF Len(batch.quads) = 0 THEN FALSE
  ELSE /\ batch.shader = quad.shader
       /\ batch.texture = quad.texture

\* canBatchWithCurrent(quad)
CanBatchWithCurrent(batch, quad) ==
  IF Len(batch.quads) = 0 THEN FALSE
  ELSE /\ batch.shader = quad.shader
       /\ batch.texture = quad.texture
       /\ batch.blendMode = quad.blendMode

\* flushCurrentBatch() on g = [batch, commandBuffer, batchCount]
FlushCurrentBatch(g) ==
  IF Len(g.batch.quads) = 0 THEN g
  ELSE [batch |-> [g.batch EXCEPT !.quads = <<>>],
        commandBuffer |-> Append(g.commandBuffer,
                                 [quads |-> g.batch.quads, shader |-> g.batch.shader,
                                  texture |-> g.batch.texture,
                                  blendMode |-> g.batch.blendMode]),
        batchCount |-> g.batchCount + 1]

\* submitDrawQuad(quad), quad being drawQuads[i]
SubmitDrawQuad(g, quads, i, batching) ==
  IF ~quads[i].visible THEN g
  ELSE IF batching /\ CanBatchWithCurrent(g.batch, quads[i])
    THEN [g EXCEPT !.batch.quads = Append(@, i)]
    ELSE [FlushCurrentBatch(g) EXCEPT
            !.batch = [quads |-> <<i>>, shader |-> quads[i].shader,
                       texture |-> quads[i].texture, blendMode |-> quads[i].blendMode]]

\* the loop of renderFrame over drawQuads[i..]
RECURSIVE SubmitFrom(_, _, _, _, _)
SubmitFrom(g, quads, i, viewport, batching) ==
  IF i > Len(quads) THEN g
  ELSE SubmitFrom(IF quads[i].needsUpdate /\ IntersectsViewport(quads[i], viewport)
                    THEN SubmitDrawQuad(g, quads, i, batching)
                    ELSE g,
                  quads, i + 1, viewport, batching)

\* the quads renderFrame hands to submitDrawQuad and submitDrawQuad does not drop
RECURSIVE Submitted(_, _, _)
Submitted(quads, i, viewport) ==
  IF i > Len(quads) THEN <<>>
  ELSE (IF quads[i].needsUpdate /\ IntersectsViewport(quads[i], viewport) /\ quads[i].visible
          THEN <<i>> ELSE <<>>) \o Submitted(quads, i + 1, viewport)

\* processCommandBuffer / executeBatchDraw / drawSingleQuad on commands[k..]:
\* d = [quads, drawn, totalDrawCalls, totalQuads]
RECURSIVE DrawQuadsOf(_, _, _)
DrawQuadsOf(d, batch, j) ==
  IF j > Len(batch) THEN d
  ELSE DrawQuadsOf([d EXCEPT !.quads[batch[j]].needsUpdate = FALSE,
                             !.drawn = Append(@, batch[j])],
                   batch, j + 1)

ExecuteBatchDraw(d, command) ==
  IF Len(command.quads) = 0 THEN d
  ELSE [DrawQuadsOf(d, command.quads, 1) EXCEPT
          !.totalDrawCalls = @ + 1,
          !.totalQuads = @ + Len(command.quads)]

RECURSIVE ProcessCommandBuffer(_, _, _)
ProcessCommandBuffer(d, commands, k) ==
  IF k > Len(commands) THEN d
  ELSE ProcessCommandBuffer(ExecuteBatchDraw(d, commands[k]), commands, k + 1)

\* resetFrameStats()
ResetFrameStats == [totalDrawCalls |-> 0, totalQuads |-> 0, batchCount |-> 0]

NoFrame == [rendered |-> FALSE, submitted |-> <<>>, commands |-> <<>>, drawn |-> <<>>]

InitGPU ==
  /\ enableBatching = TRUE
  /\ drawQuads = <<>>
  /\ currentBatch = [shader |-> "default", texture |-> "none", blendMode |-> "source-over"]
  /\ stats = ResetFrameStats
  /\ gFrame = NoFrame

\* new GPUSimulator({ enableBatching: b })
NewGPUSimulator(b) ==
  /\ drawQuads = <<>> /\ ~gFrame.rendered
  /\ enableBatching' = b
  /\ UNCHANGED <<drawQuads, currentBatch, stats, gFrame>>

\* createDrawQuad(options)
CreateDrawQuad(o) ==
  /\ Len(drawQuads) < MaxQuads
  /\ drawQuads' = Append(drawQuads, DrawQuad(o))
  /\ gFrame' = NoFrame
  /\ UNCHANGED <<enableBatching, currentBatch, stats>>

\* quad.markDirty()
MarkDirty(i) ==
  /\ i \in 1..Len(drawQuads)
  /\ ~drawQuads[i].needsUpdate
  /\ drawQuads' = [drawQuads EXCEPT ![i].needsUpdate = TRUE]
  /\ gFrame' = NoFrame
  /\ UNCHANGED <<enableBatching, currentBatch, stats>>

\* renderFrame(context, viewport)
RenderFrame(viewport) ==
  LET g0 == [batch |-> [quads |-> <<>>, shader |-> currentBatch.shader,
                        texture |-> currentBatch.texture,
                        blendMode |-> currentBatch.blendMode],
             commandBuffer |-> <<>>,
             batchCount |-> ResetFrameStats.batchCount]
      g1 == FlushCurrentBatch(SubmitFrom(g0, drawQuads, 1, viewport, enableBatching))
      d0 == [quads |-> drawQuads, drawn |-> <<>>,
             totalDrawCalls |-> ResetFrameStats.totalDrawCalls,
             totalQuads |-> ResetFrameStats.totalQuads]
      d1 == ProcessCommandBuffer(d0, g1.commandBuffer, 1)
  IN  /\ drawQuads' = d1.quads
      /\ currentBatch' = [shader |-> g1.batch.shader, texture |-> g1.batch.texture,
                          blendMode |-> g1.batch.blendMode]
      /\ stats' = [totalDrawCalls |-> d1.totalDrawCalls, totalQuads |-> d1.totalQuads,
                   batchCount |-> g1.batchCount]
      /\ gFrame' = [rendered |-> TRUE,
                    submitted |-> Submitted(drawQuads, 1, viewport),
                    commands |-> [k \in 1..Len(g1.commandBuffer) |-> g1.commandBuffer[k].quads],
                    drawn |-> d1.drawn]
      /\ UNCHANGED enableBatching

NextGPU ==
  \/ \E b \in BOOLEAN : NewGPUSimulator(b)
  \/ \E o \in QuadOptions : CreateDrawQuad(o)
  \/ \E i \in 1..MaxQuads : MarkDirty(i)
  \/ RenderFrame(Viewport)

(* ----------------------------- Compositor ------------------------------- *)
\* A layer is made by tree.createLayer(options), gets one paint record and is added
\* to a layer of the tree at once. Opacities are in hundredths. Transforms are the
\* identity and no layer clips. The compositor's TilingManager and Rasterizer keep
\* their default budgets of 100 MB, which the tiles of this model do not reach: no
\* tile and no cached buffer is evicted. The records of a layer do not change after
\* its creation, so a tile's signature is its key.
\* the zIndex values given to the layers of a composited tree
CompositedZ == {0, MaxZ}
RootOptions == [opacity |-> 100, bounds |-> Rect(0, 0, 0, 0), record |-> "none"]
CompositedLayerOptions ==
  {[opacity |-> 100, bounds |-> Rect(0, 0, TileSize, TileSize), record |-> "rect"],
   \* half transparent and one unit to the right of its parent
   [opacity |-> 50,  bounds |-> Rect(1, 0, 1, TileSize),        record |-> "rect"],
   \* a record whose executePaintOperation throws
   [opacity |-> 100, bounds |-> Rect(0, 0, TileSize, TileSize), record |-> "bad"]}

\* globalAlpha *= opacity, in hundredths
TimesOpacity(alpha, opacity) == (alpha * opacity) \div 100

NoBuffer == [set |-> FALSE, layer |-> NoLayer, alpha |-> 0]
Diagnostic == [what |-> "diagnostic", layer |-> NoLayer, alpha |-> 100, at |-> 0]

\* calculateAbsoluteBounds(layer), the parent's absoluteBounds being computed first
RECURSIVE AbsoluteBounds(_, _)
AbsoluteBounds(l, fuel) ==
  LET b == layerOptions[l].bounds
  IN  IF parent[l] = NoLayer \/ fuel = 0 THEN b
      ELSE LET pb == AbsoluteBounds(parent[l], fuel - 1)
           IN  Rect(b.x + pb.x, b.y + pb.y, b.width, b.height)

\* isLayerVisibleInViewport(layer)
IsLayerVisibleInViewport(l) ==
  LET bounds == AbsoluteBounds(l, NumLayers)
  IN  /\ ~(\/ bounds.x > Viewport.x + Viewport.width
           \/ bounds.x + bounds.width < Viewport.x
           \/ bounds.y > Viewport.y + Viewport.height
           \/ bounds.y + bounds.height < Viewport.y)
      /\ layerOptions[l].opacity > 0

\* a compositor that leaves the children as it finds them
KeepLayerChildren(s, z) == s

\* sortLayerChildren(layer), which sorts the children of layer and of every layer
\* below it by zIndex, equal ones staying in place
SortLayerChildren(s, z) == ReorderLayersOp(s, z)

\* the layers in the order traverseLayers visits them from l
RECURSIVE TraverseLayers(_, _, _)
RECURSIVE TraverseChildren(_, _, _, _)
TraverseLayers(ch, l, fuel) ==
  IF fuel = 0 THEN <<l>> ELSE <<l>> \o TraverseChildren(ch, l, 1, fuel - 1)
TraverseChildren(ch, l, i, fuel) ==
  IF i > Len(ch[l]) THEN <<>>
  ELSE TraverseLayers(ch, ch[l][i], fuel) \o TraverseChildren(ch, l, i + 1, fuel)

\* stats.layersComposited after preprocessLayers
RECURSIVE CountVisible(_)
CountVisible(order) ==
  IF order = <<>> THEN 0
  ELSE (IF IsLayerVisibleInViewport(Head(order)) THEN 1 ELSE 0) + CountVisible(Tail(order))

\* ---- the tiled path. c is the state a composite call works on:
\* [tiles, cache, busy, inFlight, list, raised], list being the local array `tiles`
\* of composite (tile keys) and raised telling that something threw
WithEntry(f, key, v) == [k \in DOMAIN f \cup {key} |-> IF k = key THEN v ELSE f[k]]

\* getOrCreateTile(x, y, layer) and the markDirty of generateTilesForLayer, which
\* always runs here: generateTiles passes only layers that need a repaint
GetOrCreateDirtyTile(c, l, x, y) ==
  LET key == TileKey(l, x, y)
      entry == IF key \in DOMAIN c.tiles
                 THEN [c.tiles[key] EXCEPT !.tile.isDirty = TRUE]
                 ELSE [tile |-> NewTile(x, y, l, layerOptions[l].bounds),
                       rasterizedContent |-> NoBuffer]
  IN  [c EXCEPT !.tiles = WithEntry(@, key, entry), !.list = Append(@, key)]

RECURSIVE GenerateCells(_, _, _)
GenerateCells(c, l, cells) ==
  IF cells = <<>> THEN c
  ELSE GenerateCells(GetOrCreateDirtyTile(c, l, Head(cells)[1], Head(cells)[2]), l, Tail(cells))

\* cleanupUnusedTiles(layer) on the compositor's tiles
CleanupLayerTiles(tilesOf, l) ==
  LET b == AbsoluteBounds(l, NumLayers)
      startX == FloorTo(b.x, TileSize)
      startY == FloorTo(b.y, TileSize)
      endX == CeilTo(b.x + b.width, TileSize)
      endY == CeilTo(b.y + b.height, TileSize)
      out == {k \in DOMAIN tilesOf :
                /\ k[1] = l
                /\ LET t == tilesOf[k].tile
                   IN  t.x < startX \/ t.x >= endX \/ t.y < startY \/ t.y >= endY}
  IN  Restrict(tilesOf, DOMAIN tilesOf \ out)

\* tilingManager.generateTilesForLayer(layer, viewport)
GenerateTilesForLayer(c, l) ==
  LET c1 == GenerateCells(c, l, GridCells(AbsoluteBounds(l, NumLayers)))
  IN  [c1 EXCEPT !.tiles = CleanupLayerTiles(@, l)]

\* a generateTiles that skips the invisible layers only
RECURSIVE GenerateTilesOfCleanLayersToo(_, _)
GenerateTilesOfCleanLayersToo(c, order) ==
  IF order = <<>> THEN c
  ELSE LET l == Head(order)
       IN  GenerateTilesOfCleanLayersToo(IF ~IsLayerVisibleInViewport(l)
                                           THEN c ELSE GenerateTilesForLayer(c, l),
                                         Tail(order))

\* generateTiles(layerTree): the layers in traversal order, the invisible and the
\* clean ones skipped
RECURSIVE GenerateTiles(_, _)
GenerateTiles(c, order) ==
  IF order = <<>> THEN c
  ELSE LET l == Head(order)
       IN  GenerateTiles(IF ~IsLayerVisibleInViewport(l) \/ ~needsRepaint[l]
                           THEN c ELSE GenerateTilesForLayer(c, l),
                         Tail(order))

\* rasterizeSync(tile): the buffer carries the layer's opacity (globalAlpha *= opacity)
RasterizeSync(l) ==
  [set |-> TRUE, layer |-> l, alpha |-> TimesOpacity(100, layerOptions[l].opacity)]

\* rasterizer.rasterizeTile(tile) up to its await
StartRasterize(c, key) ==
  LET l == key[1]
      w == AvailableWorker(c.busy)
  IN  IF key \in DOMAIN c.cache
        THEN [c EXCEPT !.tiles[key].rasterizedContent = c.cache[key],
                       !.tiles[key].tile.isDirty = FALSE]
      ELSE IF w # 0
        THEN [c EXCEPT !.busy[w] = TRUE,
                       !.inFlight = Append(@, [key |-> key, pc |-> "queued", worker |-> w,
                                               result |-> NoBuffer])]
      ELSE IF layerOptions[l].record = "bad"
        THEN [c EXCEPT !.raised = TRUE,
                       !.inFlight = Append(@, [key |-> key, pc |-> "rejected", worker |-> 0,
                                               result |-> NoBuffer])]
      ELSE [c EXCEPT !.inFlight = Append(@, [key |-> key, pc |-> "resolved", worker |-> 0,
                                             result |-> RasterizeSync(l)])]

\* rasterizeTiles(tiles): [c, n], n counting stats.tilesRasterized
RECURSIVE RasterizeTiles(_, _, _)
RasterizeTiles(c, list, n) ==
  IF list = <<>> THEN [c |-> c, tilesRasterized |-> n]
  ELSE IF c.tiles[Head(list)].tile.isDirty
    THEN RasterizeTiles(StartRasterize(c, Head(list)), Tail(list), n + 1)
    ELSE RasterizeTiles(c, Tail(list), n)

\* tiles.sort by (layer.zIndex, layer.id) of renderTiles, a stable sort; the ids
\* layer_1, layer_2, ... compare as their numbers do
TileBefore(k1, k2) ==
  \/ zIndex[k1[1]] < zIndex[k2[1]]
  \/ zIndex[k1[1]] = zIndex[k2[1]] /\ k1[1] <= k2[1]
RECURSIVE InsertTile(_, _)
InsertTile(k, s) ==
  IF s = <<>> THEN <<k>>
  ELSE IF TileBefore(k, Head(s)) THEN <<k>> \o s
  ELSE <<Head(s)>> \o InsertTile(k, Tail(s))
RECURSIVE SortTiles(_)
SortTiles(s) == IF s = <<>> THEN <<>> ELSE InsertTile(Head(s), SortTiles(Tail(s)))

\* isTileVisible(tile)
IsTileVisible(t) ==
  ~(\/ t.x > Viewport.x + Viewport.width
    \/ t.x + t.width < Viewport.x
    \/ t.y > Viewport.y + Viewport.height
    \/ t.y + t.height < Viewport.y)

\* drawTile(tile): the buffer is drawn with globalAlpha *= tile.layer.opacity
DrawTile(entry) ==
  [what |-> "tile", layer |-> entry.tile.layer,
   alpha |-> TimesOpacity(entry.rasterizedContent.alpha, layerOptions[entry.tile.layer].opacity),
   at |-> entry.tile.x]

\* renderTiles(tiles) on the sorted array: the draws, in order
RECURSIVE RenderTiles(_, _)
RenderTiles(tilesOf, sorted) ==
  IF sorted = <<>> THEN <<>>
  ELSE (IF tilesOf[Head(sorted)].rasterizedContent.set /\ IsTileVisible(tilesOf[Head(sorted)].tile)
          THEN <<DrawTile(tilesOf[Head(sorted)])>> ELSE <<>>)
       \o RenderTiles(tilesOf, Tail(sorted))

\* ---- the direct path. d is [surface, drawCalls, recordX, raised]
\* renderPaintRecords(layer): record.bounds.x += layer.bounds.x changes the bounds
\* object itself, and `record.bounds = originalBounds` puts the same object back
RenderPaintRecords(d, l, alpha) ==
  IF layerOptions[l].record = "none" THEN d
  ELSE LET x == d.recordX[l] + layerOptions[l].bounds.x
           d1 == [d EXCEPT !.recordX[l] = x]
       IN  IF layerOptions[l].record = "bad"
             THEN [d1 EXCEPT !.raised = TRUE]
             ELSE [d1 EXCEPT !.surface = Append(@, [what |-> "record", layer |-> l,
                                                     alpha |-> alpha, at |-> x])]

\* renderLayers(layer): the layer's records, then its children inside the same
\* save/restore, then stats.drawCalls += paintRecords.length
RECURSIVE RenderLayers(_, _, _, _, _)
RECURSIVE RenderChildren(_, _, _, _, _, _)
RenderLayers(d, ch, l, alpha, fuel) ==
  IF d.raised \/ ~IsLayerVisibleInViewport(l) THEN d
  ELSE LET a == TimesOpacity(alpha, layerOptions[l].opacity)
           d1 == RenderPaintRecords(d, l, a)
           d2 == IF fuel = 0 THEN d1 ELSE RenderChildren(d1, ch, l, 1, a, fuel - 1)
       IN  IF d2.raised THEN d2
           ELSE [d2 EXCEPT !.drawCalls = @ + (IF layerOptions[l].record = "none" THEN 0 ELSE 1)]
RenderChildren(d, ch, l, i, alpha, fuel) ==
  IF i > Len(ch[l]) THEN d
  ELSE RenderChildren(RenderLayers(d, ch, ch[l][i], alpha, fuel), ch, l, i + 1, alpha, fuel)

\* resetStats()
ResetStats == [layersComposited |-> 0, tilesCreated |-> 0, tilesRasterized |-> 0,
               drawCalls |-> 0, memoryUsage |-> 0]

NoComposite == [op |-> "none", tree |-> "none", raised |-> FALSE, visited |-> <<>>,
                changed |-> FALSE, hasPrev |-> FALSE]

\* the history after the tree was changed: what the last composite did no
\* longer describes the tree
TreeChanged == [NoComposite EXCEPT !.op = "change", !.changed = TRUE]

InitCompositor ==
  /\ enableTiling = TRUE
  /\ layerOptions = [l \in Layers |-> RootOptions]
  /\ needsRepaint = [l \in Layers |-> TRUE]
  /\ recordX = [l \in Layers |-> 0]
  /\ cTiles = <<>>
  /\ cCache = <<>>
  /\ cWorkerBusy = [w \in Workers |-> FALSE]
  /\ cInFlight = <<>>
  /\ surface = <<>>
  /\ cStats = ResetStats
  /\ cLast = NoComposite

\* the code that called composite gives the microtasks their turn before it calls
\* the compositor or changes the tree again: the rasterizeTile calls that are
\* settled have resumed
CallerResumes == FirstSettled(cInFlight) = 0

\* new Compositor(canvas, { enableTiling: b })
NewCompositor(b) ==
  /\ cLast.op = "none" /\ created = {Root}
  /\ enableTiling' = b
  /\ UNCHANGED <<layerVars, layerOptions, needsRepaint, recordX, cTiles, cCache, cWorkerBusy,
                 cInFlight, surface, cStats, cLast>>

\* layer = tree.createLayer({zIndex: z, opacity, bounds}); layer.addPaintRecord(record);
\* p.addChild(layer)
CreateCompositedLayer(l, z, p, o) ==
  /\ l \notin created /\ p \in created /\ l <= MaxComposited
  /\ surface = <<>> /\ cStats = ResetStats /\ cTiles = <<>>
  /\ \A k \in 1..(l-1) : k \in created
  /\ created' = created \cup {l}
  /\ allLayers' = allLayers \cup {l}
  /\ zIndex' = [zIndex EXCEPT ![l] = z]
  /\ LET s == AddChildOp(LayerState, p, l, zIndex')
     IN  /\ parent' = s.parent
         /\ children' = s.children
         /\ pushOrder' = s.pushOrder
  /\ layerOptions' = [layerOptions EXCEPT ![l] = o]
  /\ cLast' = TreeChanged
  /\ UNCHANGED <<enableTiling, needsRepaint, recordX, cTiles, cCache, cWorkerBusy, cInFlight,
                 surface, cStats>>

\* layer.zIndex = z on a layer of the tree being composited
ChangeZIndex(l, z) ==
  /\ CallerResumes
  /\ SetZIndex(l, z)
  /\ cLast' = TreeChanged
  /\ UNCHANGED <<enableTiling, layerOptions, needsRepaint, recordX, cTiles, cCache,
                 cWorkerBusy, cInFlight, surface, cStats>>

\* tree.clearDirtyFlags()
ClearDirtyFlags ==
  /\ CallerResumes
  /\ \E l \in allLayers : needsRepaint[l]
  /\ needsRepaint' = [l \in Layers |-> IF l \in allLayers THEN FALSE ELSE needsRepaint[l]]
  /\ cLast' = TreeChanged
  /\ UNCHANGED <<layerVars, enableTiling, layerOptions, recordX, cTiles, cCache, cWorkerBusy,
                 cInFlight, surface, cStats>>

\* what composite leaves in the history
CompositeDone(tree, raised, visited) ==
  [op |-> "composite", tree |-> tree, raised |-> raised, visited |-> visited,
   changed |-> FALSE,
   hasPrev |-> cLast.tree = tree /\ ~cLast.changed]

\* composite(null): preprocessLayers throws, handleCompositorError clears the canvas
\* and writes the message
CompositeNull ==
  /\ CallerResumes
  /\ surface' = <<Diagnostic>>
  /\ cStats' = ResetStats
  /\ cLast' = CompositeDone("null", TRUE, <<>>)
  /\ UNCHANGED <<layerVars, enableTiling, layerOptions, needsRepaint, recordX, cTiles, cCache,
                 cWorkerBusy, cInFlight>>

\* composite(layerTree) with tiling: preprocessLayers, generateTiles, rasterizeTiles
\* (no call is awaited), renderFinalComposition with renderTiles
CompositeTiled ==
  LET s == SortLayerChildren(LayerState, zIndex)
      order == TraverseLayers(s.children, Root, NumLayers + 1)
      c0 == [tiles |-> cTiles, cache |-> cCache, busy |-> cWorkerBusy,
             inFlight |-> cInFlight, list |-> <<>>, raised |-> FALSE]
      c1 == GenerateTiles(c0, order)
      r == RasterizeTiles(c1, c1.list, 0)
      drawn == RenderTiles(r.c.tiles, SortTiles(c1.list))
  IN  /\ enableTiling
      /\ CallerResumes
      /\ Len(r.c.inFlight) <= MaxCalls
      /\ children' = s.children
      /\ cTiles' = r.c.tiles
      /\ cWorkerBusy' = r.c.busy
      /\ cInFlight' = r.c.inFlight
      /\ surface' = drawn
      /\ cStats' = [layersComposited |-> CountVisible(order), tilesCreated |-> Len(c1.list),
                    tilesRasterized |-> r.tilesRasterized, drawCalls |-> Len(drawn),
                    memoryUsage |-> 0]
      /\ cLast' = CompositeDone("tree", r.c.raised, order)
      /\ UNCHANGED <<created, allLayers, parent, zIndex, pushOrder, enableTiling, layerOptions,
                     needsRepaint, recordX, cCache>>

\* composite(layerTree) without tiling: preprocessLayers, renderFinalComposition with
\* renderLayers(root); a throwing record ends in handleCompositorError
CompositeDirect ==
  LET s == SortLayerChildren(LayerState, zIndex)
      order == TraverseLayers(s.children, Root, NumLayers + 1)
      d == RenderLayers([surface |-> <<>>, drawCalls |-> 0, recordX |-> recordX,
                         raised |-> FALSE], s.children, Root, 100, NumLayers + 1)
  IN  /\ ~enableTiling
      /\ CallerResumes
      /\ \A l \in Layers : d.recordX[l] <= MaxShift
      /\ children' = s.children
      /\ recordX' = d.recordX
      /\ surface' = IF d.raised THEN <<Diagnostic>> ELSE d.surface
      /\ cStats' = [layersComposited |-> CountVisible(order), tilesCreated |-> 0,
                    tilesRasterized |-> 0, drawCalls |-> d.drawCalls, memoryUsage |-> 0]
      /\ cLast' = CompositeDone("tree", d.raised, order)
      /\ UNCHANGED <<created, allLayers, parent, zIndex, pushOrder, enableTiling, layerOptions,
                     needsRepaint, cTiles, cCache, cWorkerBusy, cInFlight>>

\* rasterizeTile after its await, with a buffer: cacheRasterBuffer, then the tile
\* gets the buffer and is marked clean
FinishTile(key, buffer) ==
  /\ cCache' = WithEntry(cCache, key, buffer)
  /\ cTiles' = [cTiles EXCEPT ![key].rasterizedContent = buffer, ![key].tile.isDirty = FALSE]

\* a rasterizeTile call of the compositor resumes: its buffer is cached and put on
\* the tile, or the catch block returns null
ResumeTile ==
  LET i == FirstSettled(cInFlight)
  IN  /\ i # 0
      /\ LET call == cInFlight[i]
         IN  IF call.pc = "resolved"
               THEN FinishTile(call.key, call.result)
               ELSE UNCHANGED <<cTiles, cCache>>
      /\ cInFlight' = SpliceAt(cInFlight, i)
      /\ cLast' = [cLast EXCEPT !.op = "async"]
      /\ UNCHANGED <<layerVars, enableTiling, layerOptions, needsRepaint, recordX, cWorkerBusy,
                     surface, cStats>>

\* the timer of the oldest queued job of the compositor's rasterizer fires; a throw
\* leaves the timer callback, the worker stays busy and the call never resumes
WorkerTile ==
  LET i == FirstQueued(cInFlight)
  IN  /\ i # 0
      /\ FirstSettled(cInFlight) = 0
      /\ LET call == cInFlight[i]
         IN  IF layerOptions[call.key[1]].record = "bad"
               THEN /\ cLast' = [cLast EXCEPT !.op = "async", !.raised = TRUE]
                    /\ UNCHANGED <<cTiles, cCache, cWorkerBusy>>
               ELSE /\ cWorkerBusy' = [cWorkerBusy EXCEPT ![call.worker] = FALSE]
                    /\ FinishTile(call.key, RasterizeSync(call.key[1]))
                    /\ cLast' = [cLast EXCEPT !.op = "async"]
      /\ cInFlight' = SpliceAt(cInFlight, i)
      /\ UNCHANGED <<layerVars, enableTiling, layerOptions, needsRepaint, recordX, surface,
                     cStats>>

NextCompositor ==
  \/ \E b \in BOOLEAN : NewCompositor(b)
  \/ \E l \in 1..MaxComposited, z \in CompositedZ, p \in Layers, o \in CompositedLayerOptions :
       CreateCompositedLayer(l, z, p, o)
  \/ \E l \in Layers \ {Root}, z \in CompositedZ : ChangeZIndex(l, z)
  \/ ClearDirtyFlags
  \/ CompositeNull
  \/ CompositeTiled
  \/ CompositeDirect
  \/ ResumeTile
  \/ WorkerTile

(* ------------------- LayerTreeCalculator, PaintRecordGenerator ---------- *)
\* style.opacity is absent, or a string read in hundredths: '0', '0.5', '1'
NoOpacity == -1
\* the styles of the layout nodes: transform is 'translateX(10px)' or absent,
\* overflow is 'hidden' or absent; every node has a layout box and a background
NodeStyles ==
  {[transform |-> FALSE, opacity |-> NoOpacity, overflow |-> "visible"],
   [transform |-> TRUE,  opacity |-> NoOpacity, overflow |-> "visible"],
   [transform |-> FALSE, opacity |-> 50,        overflow |-> "visible"],
   [transform |-> FALSE, opacity |-> 0,         overflow |-> "visible"],
   [transform |-> TRUE,  opacity |-> 50,        overflow |-> "visible"],
   [transform |-> TRUE,  opacity |-> NoOpacity, overflow |-> "hidden"]}
OpacityOptions == {0, 50, 100}
Reasons == {"transform", "opacity"}

\* shouldCreateNewLayer(node): the first trigger that matches, "none" for null
ShouldCreateNewLayer(style) ==
  IF style.transform THEN "transform"
  ELSE IF style.opacity # NoOpacity /\ style.opacity < 100 THEN "opacity"
  ELSE "none"

\* parseFloat(style.opacity) || 1.0
ParseOpacityOrOne(v) == IF v = NoOpacity \/ v = 0 THEN 100 ELSE v
\* options.opacity || 1.0 of the Layer constructor
OpacityOrOne(v) == IF v = 0 THEN 100 ELSE v

\* node.children of node n, in order
RECURSIVE ChildNodes(_, _, _)
ChildNodes(nodes, n, i) ==
  IF i > Len(nodes) THEN <<>>
  ELSE (IF nodes[i].parent = n THEN <<i>> ELSE <<>>) \o ChildNodes(nodes, n, i + 1)

\* new LayerTree(): the root layer alone. A calculation state is the tree (parent,
\* children, pushOrder), the fields of its layers, nextLayerId, the layer made for
\* each node and the stats
NoNode == 0
NewLayerTree ==
  [parent |-> [l \in Layers |-> NoLayer],
   children |-> [l \in Layers |-> <<>>],
   pushOrder |-> [l \in Layers |-> <<>>],
   opacity |-> [l \in Layers |-> 100],
   clipRect |-> [l \in Layers |-> FALSE],
   layoutNode |-> [l \in Layers |-> NoNode],
   nextLayerId |-> 1,
   built |-> [n \in 1..MaxNodes |-> NoLayer],
   totalNodes |-> 0,
   layersCreated |-> 0,
   compositingReasons |-> [r \in Reasons |-> 0]]

\* createLayerForNode(node, parentLayer, layerTree, reason), recordCompositingReason
\* of shouldCreateNewLayer included; the z-index of every node is absent
CreateLayerForNode(s, nodes, n, parentLayer, reason) ==
  LET l == s.nextLayerId
      s1 == [s EXCEPT !.nextLayerId = @ + 1,
                      !.opacity[l] = OpacityOrOne(ParseOpacityOrOne(nodes[n].style.opacity)),
                      !.clipRect[l] = nodes[n].style.overflow = "hidden",
                      !.layoutNode[l] = n,
                      !.built[n] = l,
                      !.layersCreated = @ + 1,
                      !.compositingReasons[reason] = @ + 1]
  IN  AddChildOp(s1, parentLayer, l, [x \in Layers |-> 0])

\* calculateForNode(node, parentLayer, layerTree)
RECURSIVE CalculateForNode(_, _, _, _, _)
RECURSIVE CalculateForChildren(_, _, _, _, _)
CalculateForNode(s, nodes, n, parentLayer, fuel) ==
  LET reason == ShouldCreateNewLayer(nodes[n].style)
      s1 == [s EXCEPT !.totalNodes = @ + 1]
      s2 == IF reason # "none" THEN CreateLayerForNode(s1, nodes, n, parentLayer, reason) ELSE s1
      targetLayer == IF reason # "none" THEN s2.built[n] ELSE parentLayer
  IN  IF fuel = 0 THEN s2
      ELSE CalculateForChildren(s2, nodes, ChildNodes(nodes, n, 1), targetLayer, fuel - 1)
CalculateForChildren(s, nodes, kids, targetLayer, fuel) ==
  IF kids = <<>> THEN s
  ELSE CalculateForChildren(CalculateForNode(s, nodes, Head(kids), targetLayer, fuel),
                            nodes, Tail(kids), targetLayer, fuel)

\* mergeLayers(parent, child) of the calculator: the parent takes the child's
\* layoutNode (and bounds), not its opacity, transform or clipRect
MergeCalculatedLayers(s, p, c) ==
  [MergeLayersOp(s, p, c) EXCEPT !.layoutNode[p] = s.layoutNode[c]]

\* the callback of removeUnnecessaryLayers; parseTransform returns the identity
\* matrix for every transform, so the test on layer.transform is always passed
RemoveUnnecessaryLayer(s, layer) ==
  IF Len(s.children[layer]) = 1 /\ s.opacity[layer] = 100
    THEN LET child == s.children[layer][1]
         IN  IF ~s.clipRect[child] /\ ~s.clipRect[layer]
               THEN MergeCalculatedLayers(s, layer, child)
               ELSE s
    ELSE s

\* removeUnnecessaryLayers: traverseLayers with that callback
RECURSIVE RemoveUnnecessaryLayers(_, _, _)
RECURSIVE RemoveUnnecessaryBelow(_, _, _, _)
RemoveUnnecessaryLayers(s, layer, fuel) ==
  LET s1 == RemoveUnnecessaryLayer(s, layer)
  IN  IF fuel = 0 THEN s1 ELSE RemoveUnnecessaryBelow(s1, layer, 1, fuel - 1)
RemoveUnnecessaryBelow(s, layer, i, fuel) ==
  IF i > Len(s.children[layer]) THEN s
  ELSE RemoveUnnecessaryBelow(RemoveUnnecessaryLayers(s, s.children[layer][i], fuel),
                              layer, i + 1, fuel)

\* optimizeLayerTree of the calculator: removeUnnecessaryLayers,
\* mergeCompatibleLayers (empty), reorderLayers
OptimizeCalculatedTree(s) ==
  ReorderLayersOp(RemoveUnnecessaryLayers(s, Root, NumLayers + 1), [x \in Layers |-> 0])

\* calculate(layoutTree) of a calculator with enableCompositingOptimization = optimize
CalculateOp(nodes, optimize) ==
  LET s == IF nodes = <<>> THEN NewLayerTree
           ELSE CalculateForNode(NewLayerTree, nodes, 1, Root, MaxNodes)
  IN  IF optimize THEN OptimizeCalculatedTree(s) ELSE s

\* isNodeVisible(node): the nodes have a box and no display or visibility style,
\* so what is left is style.opacity === '0'
IsNodeVisible(style) == style.opacity # 0

\* generateForLayer(layer): the records of layer.layoutNode, when the layer has one
\* and the node is visible, are added to the layer; then the child layers. The
\* records of node n are written n
RECURSIVE GenerateForLayer(_, _, _, _, _)
RECURSIVE GenerateForChildLayers(_, _, _, _, _, _)
GenerateForLayer(records, s, nodes, layer, fuel) ==
  LET n == s.layoutNode[layer]
      r1 == IF n # NoNode /\ IsNodeVisible(nodes[n].style)
              THEN [records EXCEPT ![layer] = Append(@, n)] ELSE records
  IN  IF fuel = 0 THEN r1 ELSE GenerateForChildLayers(r1, s, nodes, layer, 1, fuel - 1)
GenerateForChildLayers(records, s, nodes, layer, i, fuel) ==
  IF i > Len(s.children[layer]) THEN records
  ELSE GenerateForChildLayers(GenerateForLayer(records, s, nodes, s.children[layer][i], fuel),
                              s, nodes, layer, i + 1, fuel)

\* calc.input is what calculate was given: "tree" for a layout tree object with
\* the nodes of layoutTree, "null" for null, "noRoot" for an object without a
\* root; calc.threw says that the call threw instead of returning
NoCalc == [done |-> FALSE, optimize |-> FALSE, tree |-> NewLayerTree, input |-> "tree",
           threw |-> FALSE]
NoPaint == [done |-> FALSE, records |-> [l \in Layers |-> <<>>]]
NoMadeLayer == [made |-> FALSE, option |-> 100, opacity |-> 100]

InitCalculator ==
  /\ layoutTree = <<>>
  /\ calc = NoCalc
  /\ painted = NoPaint
  /\ madeLayer = NoMadeLayer

\* the nodes of the layout tree that get a layer
Promoted(nodes) == {n \in 1..Len(nodes) : ShouldCreateNewLayer(nodes[n].style) # "none"}

\* the layout tree gets one more node, with style st, under node p (the root
\* when the tree is empty)
AddLayoutNode(p, st) ==
  /\ ~calc.done
  /\ Len(layoutTree) < MaxNodes
  /\ IF layoutTree = <<>> THEN p = NoNode ELSE p \in 1..Len(layoutTree)
  /\ layoutTree' = Append(layoutTree, [parent |-> p, style |-> st])
  /\ Cardinality(Promoted(layoutTree')) <= NumLayers
  /\ UNCHANGED <<calc, painted, madeLayer>>

\* new LayerTreeCalculator({enableCompositingOptimization: optimize}).calculate(layoutTree)
Calculate(optimize) ==
  /\ ~calc.done
  /\ calc' = [NoCalc EXCEPT !.done = TRUE, !.optimize = optimize,
                            !.tree = CalculateOp(layoutTree, optimize)]
  /\ UNCHANGED <<layoutTree, painted, madeLayer>>

\* what calculate is given in place of a layout tree with nodes
InvalidLayoutTrees == {"null", "noRoot"}

\* calculate(null) and calculate({}): resetStats and new LayerTree() come first;
\* then layoutTree.root is read, which throws a TypeError when layoutTree is
\* null and is undefined for {}, where calculateForNode returns at once
CalculateInvalid(input, optimize) ==
  /\ ~calc.done
  /\ layoutTree = <<>>
  /\ calc' = [NoCalc EXCEPT !.done = TRUE, !.optimize = optimize, !.input = input,
                            !.threw = (input = "null"),
                            !.tree = CalculateOp(<<>>, optimize)]
  /\ UNCHANGED <<layoutTree, painted, madeLayer>>

\* new PaintRecordGenerator().generate(layerTree) on the tree calculate returned;
\* the records made have visible true and opacity 1 and no two are rectangles of
\* one layer, so optimizePaintRecords leaves them
Generate ==
  /\ calc.done /\ ~calc.threw /\ ~painted.done
  /\ painted' = [done |-> TRUE,
                 records |-> GenerateForLayer(NoPaint.records, calc.tree, layoutTree, Root,
                                              NumLayers + 1)]
  /\ UNCHANGED <<layoutTree, calc, madeLayer>>

\* new Layer({opacity: o})
NewLayer(o) ==
  /\ ~madeLayer.made
  /\ madeLayer' = [made |-> TRUE, option |-> o, opacity |-> OpacityOrOne(o)]
  /\ UNCHANGED <<layoutTree, calc, painted>>

NextCalculator ==
  \/ \E p \in 0..MaxNodes, st \in NodeStyles : AddLayoutNode(p, st)
  \/ \E optimize \in BOOLEAN : Calculate(optimize)
  \/ \E input \in InvalidLayoutTrees, optimize \in BOOLEAN : CalculateInvalid(input, optimize)
  \/ Generate
  \/ \E o \in OpacityOptions : NewLayer(o)

(* ------------------------- PaintRecordGenerator.generate ---------------- *)
\* the layers handed to generate: layer 1 is the root of the layer tree, the
\* others are its children in order; each has a layout node (or none) and its
\* paint records

\* a paint record: its type and, for a shadow record, the type of targetRecord;
\* visible and opacity are the defaults of the PaintRecord constructor
PaintRecordOf(type, target) ==
  [type |-> type, target |-> target, visible |-> TRUE, opacity |-> 100]

\* layer.layoutNode absent
NoLayoutNode ==
  [exists |-> FALSE, layout |-> FALSE, width |-> 0, display |-> "", visibility |-> "",
   opacity |-> NoOpacity, background |-> "", border |-> "", text |-> "", shadow |-> ""]
\* a visible node: a layout box of width 2, no display, visibility or opacity style
VisibleNode(bg, bd, tx, sh) ==
  [exists |-> TRUE, layout |-> TRUE, width |-> 2, display |-> "", visibility |-> "",
   opacity |-> NoOpacity, background |-> bg, border |-> bd, text |-> tx, shadow |-> sh]
\* background is style['background-color']; border is "solid" for a box model
\* with border.top > 0, "none" for style.border 'none'; text is the data of a
\* text element, "" for another element; shadow is style['box-shadow']
VisibleNodes ==
  {VisibleNode(bg, bd, tx, sh) : bg \in {"", "red"}, bd \in {"none", "solid"},
                                 tx \in {"", "text"}, sh \in {"", "none", "2px"}}
PlainNode == VisibleNode("red", "solid", "text", "")
InvisibleNodes ==
  {[PlainNode EXCEPT !.display = "none"],
   [PlainNode EXCEPT !.visibility = "hidden"],
   [PlainNode EXCEPT !.opacity = 0],
   [PlainNode EXCEPT !.width = 0],
   [PlainNode EXCEPT !.layout = FALSE]}
LayoutNodes == VisibleNodes \cup InvisibleNodes \cup {NoLayoutNode}

\* isNodeVisible(node) with every test of the code
NodeIsVisibleIgnoringSize(node) ==
  /\ node.layout
  /\ ~(node.display = "none" \/ node.visibility = "hidden" \/ node.opacity = 0)
NodeIsVisible(node) ==
  /\ node.layout
  /\ ~(node.width <= 0)
  /\ ~(node.display = "none" \/ node.visibility = "hidden" \/ node.opacity = 0)

\* createBackgroundRecord(node, layer): <<>> for null
CreateBackgroundRecord(node) ==
  IF node.background \in {"", "transparent", "none"} THEN <<>>
  ELSE <<PaintRecordOf("rect", "none")>>

\* createBorderRecord(node, layer): <<>> for null
CreateBorderRecord(node) ==
  IF node.border = "solid" THEN <<PaintRecordOf("path", "none")>> ELSE <<>>

\* createContentRecords(node, layer)
CreateContentRecords(node) ==
  IF node.text \notin {"", " "} THEN <<PaintRecordOf("text", "none")>> ELSE <<>>

\* createShadowRecord(node, layer, contentRecords): <<>> for null
CreateShadowRecord(node, contentRecords) ==
  IF node.shadow \in {"", "none"} THEN <<>>
  ELSE IF Len(contentRecords) > 0
         THEN <<PaintRecordOf("shadow", contentRecords[1].type)>>
         ELSE <<>>

\* createPaintRecordsForNode(node, layer): the records returned and the number
\* added to stats.generatedRecords
CreatePaintRecordsForNode(node) ==
  LET records == CreateBackgroundRecord(node) \o CreateBorderRecord(node)
                   \o CreateContentRecords(node)
      shadowRecord == CreateShadowRecord(node, records)
  IN  IF shadowRecord # <<>>
        THEN [records |-> shadowRecord, generated |-> 0]
        ELSE [records |-> records, generated |-> Len(records)]

\* resetStats()
ResetGeneratorStats ==
  [totalLayers |-> 0, generatedRecords |-> 0, optimizedRecords |-> 0, culledRecords |-> 0]

\* generateForLayer(layer) for layer i and then the layers after it: the root
\* first, then each child
RECURSIVE GenerateRecordsForLayer(_, _)
GenerateRecordsForLayer(g, i) ==
  IF i > Len(g.layers) THEN g
  ELSE
    LET node == g.layers[i].node
        made == CreatePaintRecordsForNode(node)
        g1 == [g EXCEPT !.stats.totalLayers = @ + 1]
        g2 == IF ~node.exists THEN g1
              ELSE IF NodeIsVisible(node)
                THEN [g1 EXCEPT !.layers[i].paintRecords = @ \o made.records,
                                !.stats.generatedRecords = @ + made.generated]
                ELSE [g1 EXCEPT !.stats.culledRecords = @ + 1]
    IN  GenerateRecordsForLayer(g2, i + 1)

\* the filter of cullInvisibleRecordsInLayer
RECURSIVE FilterVisibleRecords(_)
FilterVisibleRecords(records) ==
  IF records = <<>> THEN <<>>
  ELSE (IF Head(records).visible /\ Head(records).opacity > 0 THEN <<Head(records)>> ELSE <<>>)
         \o FilterVisibleRecords(Tail(records))

\* the loop of mergeSimilarRecordsInLayer: rectangles that follow one another
\* (one fill style a layer) become the first of them
RECURSIVE MergeSimilarRecords(_, _)
MergeSimilarRecords(records, currentRectRecord) ==
  IF records = <<>> THEN currentRectRecord
  ELSE IF Head(records).type = "rect"
    THEN MergeSimilarRecords(Tail(records),
                             IF currentRectRecord = <<>> THEN <<Head(records)>>
                             ELSE currentRectRecord)
    ELSE currentRectRecord \o <<Head(records)>> \o MergeSimilarRecords(Tail(records), <<>>)

\* optimizePaintRecords(layerTree) for layer i and the layers after it
RECURSIVE OptimizePaintRecords(_, _)
OptimizePaintRecords(g, i) ==
  IF i > Len(g.layers) THEN g
  ELSE
    LET before == g.layers[i].paintRecords
        culled == FilterVisibleRecords(before)
        merged == MergeSimilarRecords(culled, <<>>)
    IN  OptimizePaintRecords(
          [g EXCEPT !.layers[i].paintRecords = merged,
                    !.stats.culledRecords = @ + (Len(before) - Len(culled)),
                    !.stats.optimizedRecords = @ + (Len(culled) - Len(merged))],
          i + 1)

\* generate(layerTree) of a generator with enableOptimizations = optimizations
GenerateOp(layers, optimizations) ==
  LET g == GenerateRecordsForLayer([layers |-> layers, stats |-> ResetGeneratorStats], 1)
  IN  IF optimizations THEN OptimizePaintRecords(g, 1) ELSE g

InitGenerator ==
  /\ pLayers = <<>>
  /\ pStats = ResetGeneratorStats
  /\ pDone = FALSE

\* the layer tree gets one more layer, whose layout node is node
AddPaintLayer(node) ==
  /\ ~pDone
  /\ Len(pLayers) < MaxPaintLayers
  /\ pLayers' = Append(pLayers, [node |-> node, paintRecords |-> <<>>])
  /\ UNCHANGED <<pStats, pDone>>

\* new PaintRecordGenerator({enableOptimizations: optimizations}).generate(layerTree)
GenerateRecords(optimizations) ==
  /\ ~pDone
  /\ pLayers # <<>>
  /\ LET g == GenerateOp(pLayers, optimizations)
     IN  /\ pLayers' = g.layers
         /\ pStats' = g.stats
  /\ pDone' = TRUE

NextGenerator ==
  \/ \E node \in LayoutNodes : AddPaintLayer(node)
  \/ \E optimizations \in BOOLEAN : GenerateRecords(optimizations)

(* ------------------------------ RenderEngine ---------------------------- *)
\* a node of a render tree: whether it paints (a background colour) and the
\* width of its layout box; NoRenderNode is a root that is null or missing
NoRenderNode == [exists |-> FALSE, background |-> FALSE, width |-> 0]
RenderNodes == {[exists |-> TRUE, background |-> bg, width |-> w] : bg \in BOOLEAN, w \in 1..MaxWidth}

\* what render is given: null, {} ("noRoot"), {root: null} ("nullRoot"), or a
\* tree with a root node that has one child or none
NoRenderTree == [kind |-> "none", root |-> NoRenderNode, child |-> NoRenderNode]
RenderTrees ==
  {[kind |-> k, root |-> NoRenderNode, child |-> NoRenderNode] : k \in {"null", "noRoot", "nullRoot"}}
    \cup {[kind |-> "tree", root |-> r, child |-> c] :
            r \in RenderNodes, c \in RenderNodes \cup {NoRenderNode}}

\* the pixels of the canvas and of a rectangle
CanvasPixels == (0..(CanvasSize - 1)) \X (0..(CanvasSize - 1))
PixelsOf(r) == {px \in CanvasPixels : /\ r.x <= px[1] /\ px[1] < r.x + r.width
                                      /\ r.y <= px[2] /\ px[2] < r.y + r.height}
\* the dirtyRegions arguments of incrementalRender
DirtyRegionLists ==
  {<<>>, <<Rect(0, 0, 1, 1)>>, <<Rect(0, 0, 1, 1), Rect(1, 1, 1, 1)>>,
   <<Rect(0, 0, CanvasSize, CanvasSize)>>}

\* hasNodeChanged(newNode, oldNode): a node that is missing has changed; the
\* style and the layout are compared through JSON.stringify
HasNodeChanged(newNode, oldNode) ==
  \/ ~newNode.exists
  \/ ~oldNode.exists
  \/ newNode.background # oldNode.background
  \/ newNode.width # oldNode.width

\* compareNodeChildren(newNode, oldNode, changes) for nodes with at most one
\* child: the changes it pushes
CompareNodeChildren(newChild, oldChild) ==
  IF ~newChild.exists /\ oldChild.exists
    THEN <<[type |-> "node-removed", node |-> NoRenderNode]>>
  ELSE IF newChild.exists /\ ~oldChild.exists
    THEN <<[type |-> "node-added", node |-> newChild]>>
  ELSE IF newChild.exists /\ oldChild.exists /\ HasNodeChanged(newChild, oldChild)
    THEN <<[type |-> "node-changed", node |-> newChild]>>
  ELSE <<>>

\* detectChanges(newTree, oldTree): newTree.root of null throws, and so does
\* compareNodeChildren when it reads .children of a root that is null or missing
DetectChanges(newTree, oldTree) ==
  LET rootChange == IF HasNodeChanged(newTree.root, oldTree.root)
                      THEN <<[type |-> "node-changed", node |-> newTree.root]>> ELSE <<>>
  IN  IF newTree.kind = "null" \/ ~newTree.root.exists \/ ~oldTree.root.exists
        THEN [threw |-> TRUE, changes |-> <<>>]
        ELSE [threw |-> FALSE,
              changes |-> rootChange \o CompareNodeChildren(newTree.child, oldTree.child)]

\* paintRecordGenerator.createPaintRecordsForNode(change.node), called without
\* a layer: createBackgroundRecord reads layer.id of undefined when the node has
\* a background colour
CreateRecordsThrows(node) == node.exists /\ node.background

\* updateAffectedLayers(changes) throws when one of the added or changed nodes does
UpdateAffectedLayersThrows(changes) ==
  \E i \in 1..Len(changes) :
    /\ changes[i].type \in {"node-added", "node-changed"}
    /\ CreateRecordsThrows(changes[i].node)

\* renderFinalComposition(layerTree, tiles, options): the pixels its clearRect
\* clears; options.incremental and options.dirtyRegions are not read
ClearedByFinalComposition(incremental, dirtyRegions) == CanvasPixels

\* what a call of the engine did: the method, its arguments, whether it threw to
\* the caller (and in which step) or returned this.stats, and the pixels the
\* compositor cleared
NoEngineCall ==
  [op |-> "none", tree |-> NoRenderTree, dirtyRegions |-> <<>>, threw |-> FALSE, at |-> "",
   caught |-> FALSE, composited |-> FALSE, incremental |-> FALSE, cleared |-> {}]

InitEngine ==
  /\ currentLayerTree = FALSE
  /\ lastRenderTree = NoRenderTree
  /\ eCall = NoEngineCall

\* render(renderTree) called as op: calculate throws for null inside the try and
\* the catch paints the error; for an object the six stages run and the trees
\* are kept. this.stats is returned either way
RenderOp(op, tree, dirtyRegions) ==
  IF tree.kind = "null"
    THEN /\ eCall' = [NoEngineCall EXCEPT !.op = op, !.tree = tree,
                                          !.dirtyRegions = dirtyRegions, !.caught = TRUE,
                                          !.cleared = CanvasPixels]
         /\ UNCHANGED <<currentLayerTree, lastRenderTree>>
    ELSE /\ eCall' = [NoEngineCall EXCEPT !.op = op, !.tree = tree,
                                          !.dirtyRegions = dirtyRegions, !.composited = TRUE,
                                          !.cleared = ClearedByFinalComposition(FALSE, <<>>)]
         /\ currentLayerTree' = TRUE
         /\ lastRenderTree' = tree

Render(tree) == RenderOp("render", tree, <<>>)

\* incrementalRender(renderTree, dirtyRegions): render when there is no earlier
\* frame; else detectChanges, markDirtyRegions, updateAffectedLayers, composite
\* with incremental set, then updateStats and lastRenderTree = renderTree
IncrementalRender(tree, dirtyRegions) ==
  IF ~currentLayerTree \/ lastRenderTree = NoRenderTree
    THEN RenderOp("incrementalRender", tree, dirtyRegions)
    ELSE
      LET d == DetectChanges(tree, lastRenderTree)
          call == [NoEngineCall EXCEPT !.op = "incrementalRender", !.tree = tree,
                                       !.dirtyRegions = dirtyRegions]
          reached == ~d.threw /\ d.changes # <<>> /\ ~UpdateAffectedLayersThrows(d.changes)
      IN  /\ eCall' =
               IF d.threw THEN [call EXCEPT !.threw = TRUE, !.at = "detectChanges"]
               ELSE IF d.changes = <<>> THEN call
               ELSE IF UpdateAffectedLayersThrows(d.changes)
                 THEN [call EXCEPT !.threw = TRUE, !.at = "updateAffectedLayers"]
               ELSE [call EXCEPT !.composited = TRUE, !.incremental = TRUE,
                                 !.cleared = ClearedByFinalComposition(TRUE, dirtyRegions)]
          /\ lastRenderTree' = IF reached THEN tree ELSE lastRenderTree
          /\ UNCHANGED currentLayerTree

NextEngine ==
  \/ \E tree \in RenderTrees : Render(tree)
  \/ \E tree \in RenderTrees, dirtyRegions \in DirtyRegionLists :
       IncrementalRender(tree, dirtyRegions)

(* ------------------------------ Layer.dispose --------------------------- *)
\* The layers of the Layer section with their paint records (their number) and
\* their backing store (set or null). The tree is built with createLayer and
\* addChild; dLast is the last dispose() and the children the layer had before it.
NoDispose == [layer |-> NoLayer, formerChildren |-> {}]

InitDispose ==
  /\ layerRecords = [l \in Layers |-> 0]
  /\ backingStore = [l \in Layers |-> FALSE]
  /\ dLast = NoDispose

\* createLayer and addChild on the tree
BuildTree ==
  /\ \/ \E l \in Layers : CreateLayer(l, 0)
     \/ \E p \in Layers, c \in Layers : AddChild(p, c)
  /\ dLast' = NoDispose
  /\ UNCHANGED <<layerRecords, backingStore>>

\* layer.addPaintRecords([record])
AddPaintRecords(l) ==
  /\ l \in created
  /\ layerRecords[l] < MaxRecords
  /\ layerRecords' = [layerRecords EXCEPT ![l] = @ + 1]
  /\ dLast' = NoDispose
  /\ UNCHANGED <<layerVars, backingStore>>

\* layer.backingStore = {...}
SetBackingStore(l) ==
  /\ l \in created
  /\ ~backingStore[l]
  /\ backingStore' = [backingStore EXCEPT ![l] = TRUE]
  /\ dLast' = NoDispose
  /\ UNCHANGED <<layerVars, layerRecords>>

\* layer.dispose() on a layer that does not reach itself through children:
\* clearPaintRecords() and backingStore = null on the layer and on every layer
\* below it, and their children lists emptied
Dispose(l) ==
  /\ l \in created
  /\ NoCycleBelow(children, l, {})
  /\ LET gone == Below(children, l, NumLayers + 1)
         s == DisposeOp(LayerState, l)
     IN  /\ parent' = s.parent
         /\ children' = s.children
         /\ pushOrder' = s.pushOrder
         /\ layerRecords' = [x \in Layers |-> IF x \in gone THEN 0 ELSE layerRecords[x]]
         /\ backingStore' = [x \in Layers |-> IF x \in gone THEN FALSE ELSE backingStore[x]]
  /\ dLast' = [layer |-> l, formerChildren |-> Range(children[l])]
  /\ UNCHANGED <<created, allLayers, zIndex>>

NextDispose ==
  \/ BuildTree
  \/ \E l \in Layers : AddPaintRecords(l)
  \/ \E l \in Layers : SetBackingStore(l)
  \/ \E l \in Layers : Dispose(l)

(* ---------------- Tile.dispose and the raster cache --------------------- *)
\* A RasterBuffer owns one canvas; tile.rasterizedContent = buffer.getCanvas() is that
\* same canvas object, which the cache entry of the buffer keeps too. Canvases are
\* numbered in the order they are created; 0 stands for null. A canvas is what
\* rasterizeSync drew into it (drawn) and whether clearRect has emptied it since.
\* The tiles are tiles 0..NumManagedTiles-1 of one row of the layer of the Rasterizer
\* section, managed by a TilingManager; the raster cache has room for every buffer.
ManagedTiles == 1..NumManagedTiles
NoCanvas == 0
NewCanvas(pixels) == [drawn |-> pixels, cleared |-> FALSE]

\* Tile.dispose(): clearRect on the canvas the tile holds, when it holds one
TileDispose(cs, content) ==
  IF content # NoCanvas THEN [cs EXCEPT ![content].cleared = TRUE] ELSE cs

\* the paint records of the layer: one or two records
CanvasRecords == {<<[type |-> "rect", fillStyle |-> "red"]>>,
                  <<[type |-> "rect", fillStyle |-> "red"], [type |-> "text", fillStyle |-> "blue"]>>}

NoCanvasOp == [op |-> "none", tile |-> 0, ret |-> NoCanvas]

InitCanvas ==
  /\ canvases = <<>>
  /\ managed = [t \in ManagedTiles |-> [present |-> FALSE, rasterizedContent |-> NoCanvas]]
  /\ bufferCache = <<>>
  /\ layerPaint = <<[type |-> "rect", fillStyle |-> "red"]>>
  /\ rasterCalls = <<>>
  /\ xLast = NoCanvasOp

\* layer.paintRecords = records
SetPaintRecords(records) ==
  /\ records # layerPaint
  /\ layerPaint' = records
  /\ xLast' = NoCanvasOp
  /\ UNCHANGED <<canvases, managed, bufferCache, rasterCalls>>

\* tilingManager.getOrCreateTile for a tile that is not managed: new Tile
CreateManagedTile(t) ==
  /\ ~managed[t].present
  /\ managed' = [managed EXCEPT ![t] = [present |-> TRUE, rasterizedContent |-> NoCanvas]]
  /\ xLast' = NoCanvasOp
  /\ UNCHANGED <<canvases, bufferCache, layerPaint, rasterCalls>>

\* tilingManager.removeTile(key), which cleanupUnusedTiles, clearLayerTiles,
\* clearAllTiles and enforceMemoryLimit call: tile.dispose(), then the tile leaves
\* the indexes
RemoveManagedTile(t) ==
  /\ managed[t].present
  /\ canvases' = TileDispose(canvases, managed[t].rasterizedContent)
  /\ managed' = [managed EXCEPT ![t] = [present |-> FALSE, rasterizedContent |-> NoCanvas]]
  \* a call that still waits keeps the Tile object, which is managed no more
  /\ rasterCalls' = [i \in 1..Len(rasterCalls) |->
                       IF rasterCalls[i].tile = t THEN [rasterCalls[i] EXCEPT !.managed = FALSE]
                                                  ELSE rasterCalls[i]]
  /\ xLast' = [op |-> "remove", tile |-> t, ret |-> NoCanvas]
  /\ UNCHANGED <<bufferCache, layerPaint>>

\* rasterizer.rasterizeTile(tile) up to its await: a cached buffer hands its canvas
\* to the tile at once; else the call waits for rasterizeAsync
RasterizeManagedTile(t) ==
  /\ managed[t].present
  /\ Len(rasterCalls) < MaxCalls
  /\ LET i == CacheIndex(bufferCache, GenerateTileSignature(t, layerPaint))
     IN  IF i # 0
           THEN /\ managed' = [managed EXCEPT ![t].rasterizedContent = bufferCache[i].buffer]
                /\ xLast' = [op |-> "hit", tile |-> t, ret |-> bufferCache[i].buffer]
                /\ UNCHANGED rasterCalls
           ELSE /\ rasterCalls' = Append(rasterCalls, [tile |-> t, managed |-> TRUE])
                /\ xLast' = [op |-> "miss", tile |-> t, ret |-> NoCanvas]
                /\ UNCHANGED managed
  /\ UNCHANGED <<canvases, bufferCache, layerPaint>>

\* the oldest waiting call gets its buffer and resumes: rasterizeSync has drawn the
\* layer's records into the canvas of a new RasterBuffer, cacheRasterBuffer stores the
\* buffer under the tile's signature, and the tile gets the buffer's canvas. The tile
\* object is the one the call was made with, still managed or not.
ResumeManagedTile ==
  /\ rasterCalls # <<>>
  /\ Len(canvases) < MaxCanvases
  /\ LET t == Head(rasterCalls).tile
         c == Len(canvases) + 1
     IN  /\ canvases' = Append(canvases, NewCanvas(DrawRecords(layerPaint)))
         /\ bufferCache' = CacheSet(bufferCache, GenerateTileSignature(t, layerPaint), c)
         /\ managed' = IF Head(rasterCalls).managed
                         THEN [managed EXCEPT ![t].rasterizedContent = c]
                         ELSE managed
         /\ xLast' = [op |-> "done", tile |-> t, ret |-> c]
  /\ rasterCalls' = Tail(rasterCalls)
  /\ UNCHANGED layerPaint

NextCanvas ==
  \/ \E r \in CanvasRecords : SetPaintRecords(r)
  \/ \E t \in ManagedTiles : CreateManagedTile(t)
  \/ \E t \in ManagedTiles : RemoveManagedTile(t)
  \/ \E t \in ManagedTiles : RasterizeManagedTile(t)
  \/ ResumeManagedTile

(* ------------- TilingManager: nested layers and clearing ---------------- *)
\* A layer below a layer that is not at the origin: after a composite its
\* absoluteBounds are its bounds moved by the parent's position, here by one tile
\* or by two
NestedGeometries ==
  {[bounds |-> Rect(0, 0, TileSize, TileSize), abs |-> Rect(TileSize, 0, TileSize, TileSize)],
   [bounds |-> Rect(0, 0, TileSize, TileSize), abs |-> Rect(2 * TileSize, 0, TileSize, TileSize)]}

\* clearLayerTiles(layerId): removeTile for each key of the layer
ClearLayerTiles(layerId) ==
  /\ ~gen.active
  /\ layerTiles[layerId] # {}
  /\ SetTilingState(RemoveTiles(TilingState, layerTiles[layerId]))
  /\ tLast' = [NoOp EXCEPT !.op = "clearLayer"]
  /\ UNCHANGED <<tCacheHits, gen>>

\* clearAllTiles(): removeTile for each key, then the indexes are emptied and
\* currentMemoryUsage set to 0
ClearAllTiles ==
  /\ ~gen.active
  /\ tiles # <<>>
  /\ LET ts == RemoveTiles(TilingState, DOMAIN tiles)
     IN  SetTilingState([ts EXCEPT !.tiles = <<>>,
                                   !.layerTiles = [l \in TileLayers |-> {}],
                                   !.order = <<>>,
                                   !.mem = 0])
  /\ tLast' = [NoOp EXCEPT !.op = "clearAll"]
  /\ UNCHANGED <<tCacheHits, gen>>

NextTilingAll ==
  \/ NextTiling
  \/ \E l \in TileLayers : ClearLayerTiles(l)
  \/ ClearAllTiles

NextTilingNested ==
  \/ NextTilingAll
  \/ \E l \in TileLayers, g \in NestedGeometries : GenerateStart(l, g.bounds, g.abs)

\* The dirty state a layer can be in when it is tiled: needsRepaint and dirtyRegion
\* as the constructor or markDirty() leave them, as markDirty(region) leaves them,
\* and as clearDirtyFlags leaves them
DirtyRegions == {Rect(0, 0, 1, 1), Rect(0, 0, TileSize, 1)}
LayerDirtyStates ==
  {[needsRepaint |-> TRUE, dirtyRegion |-> NoRect],
   [needsRepaint |-> FALSE, dirtyRegion |-> NoRect]}
  \cup {[needsRepaint |-> TRUE, dirtyRegion |-> r] : r \in DirtyRegions}

\* generateTilesForLayer(layer, viewport) for a layer in dirty state d: the grid is
\* computed
GenerateStartDirty(layerId, b, abs, d) ==
  /\ ~gen.active
  /\ gen' = [active |-> TRUE, layer |-> layerId, bounds |-> b,
             grid |-> IF abs.set THEN abs ELSE b,
             cells |-> GridCells(IF abs.set THEN abs ELSE b),
             needsRepaint |-> d.needsRepaint, dirtyRegion |-> d.dirtyRegion,
             returned |-> <<>>]
  /\ tLast' = [NoOp EXCEPT !.op = "generate"]
  /\ UNCHANGED <<tiles, layerTiles, tileAccessOrder, currentMemoryUsage, tCacheHits>>

\* tile.markClean(), as the rasterizer calls it when the tile has its content
MarkTileClean(key) ==
  /\ ~gen.active
  /\ key \in DOMAIN tiles
  /\ tiles[key].isDirty
  /\ tiles' = [tiles EXCEPT ![key].isDirty = FALSE]
  /\ tLast' = [NoOp EXCEPT !.op = "markClean", !.key = key]
  /\ UNCHANGED <<layerTiles, tileAccessOrder, currentMemoryUsage, tCacheHits, gen>>

NextTilingDirty ==
  \/ NextTilingAll
  \/ \E l \in TileLayers, g \in LayerGeometries, d \in LayerDirtyStates :
       GenerateStartDirty(l, g.bounds, g.abs, d)
  \/ \E k \in DOMAIN tiles : MarkTileClean(k)

(* ------------- Compositor.preprocessLayers: absoluteBounds -------------- *)
\* The layers of the Layer section with their bounds and transform, in a tree built
\* with createLayer, addChild and removeChild (no layer is added to itself or to a
\* layer below it, and the root is never a child). absoluteBounds is undefined
\* (NoRect) until the first composite that reaches the layer. Of preprocessLayers
\* the visibility flag and the statistics are left out.
Identity == [a |-> 1, b |-> 0, c |-> 0, d |-> 1, e |-> 0, f |-> 0]
Transforms == {Identity, [a |-> 2, b |-> 0, c |-> 0, d |-> 2, e |-> 1, f |-> 0]}
BoundsOptions == {Rect(0, 0, 0, 0), Rect(1, 0, 2, 1)}

\* Layer.getAbsoluteBounds()
RECURSIVE GetAbsoluteBounds(_, _)
GetAbsoluteBounds(l, fuel) ==
  LET b == lBounds[l]
      t == lTransform[l]
  IN  IF parent[l] = NoLayer \/ fuel = 0 THEN b
      ELSE LET parentBounds == GetAbsoluteBounds(parent[l], fuel - 1)
           IN  Rect(b.x * t.a + b.y * t.c + t.e + parentBounds.x,
                    b.x * t.b + b.y * t.d + t.f + parentBounds.y,
                    b.width, b.height)

\* calculateAbsoluteBounds(layer): the value layer.absoluteBounds gets, abs being the
\* absoluteBounds of the layers at the call
CalculateAbsoluteBounds(abs, l) ==
  LET b == lBounds[l]
      t == lTransform[l]
  IN  IF parent[l] = NoLayer THEN b
      ELSE LET parentAbsoluteBounds == IF abs[parent[l]].set THEN abs[parent[l]]
                                                             ELSE lBounds[parent[l]]
           IN  Rect(b.x * t.a + b.y * t.c + t.e + parentAbsoluteBounds.x,
                    b.x * t.b + b.y * t.d + t.f + parentAbsoluteBounds.y,
                    b.width, b.height)

\* a traversal that visits the children of a layer before the layer
ChildrenFirstOrder(ch) ==
  LET order == TraverseLayers(ch, Root, NumLayers + 1)
  IN  [i \in 1..Len(order) |-> order[Len(order) + 1 - i]]
\* layerTree.traverseLayers(callback) of preprocessLayers: the order of the calls
PreprocessOrder(ch) == TraverseLayers(ch, Root, NumLayers + 1)

\* the callbacks of preprocessLayers on the layers of order, one after the other
RECURSIVE PreprocessEach(_, _)
PreprocessEach(abs, order) ==
  IF order = <<>> THEN abs
  ELSE PreprocessEach([abs EXCEPT ![Head(order)] = CalculateAbsoluteBounds(abs, Head(order))],
                      Tail(order))

InitBounds ==
  /\ lBounds = [l \in Layers |-> Rect(0, 0, 0, 0)]
  /\ lTransform = [l \in Layers |-> Identity]
  /\ absoluteBounds = [l \in Layers |-> NoRect]
  /\ bLast = "none"

\* tree.createLayer(), p.addChild(c), p.removeChild(c)
BuildBoundsTree ==
  /\ \/ \E l \in 1..MaxComposited : CreateLayer(l, 0)
     \/ \E p \in Layers, c \in Layers \ {Root} :
          p \notin Below(children, c, NumLayers + 1) /\ AddChild(p, c)
     \/ \E p \in Layers, c \in Layers : IndexOf(children[p], c) # 0 /\ RemoveChild(p, c)
  /\ bLast' = "change"
  /\ UNCHANGED <<lBounds, lTransform, absoluteBounds>>

\* layer.bounds = b
SetLayerBounds(l, b) ==
  /\ l \in created /\ lBounds[l] # b
  /\ lBounds' = [lBounds EXCEPT ![l] = b]
  /\ bLast' = "change"
  /\ UNCHANGED <<layerVars, lTransform, absoluteBounds>>

\* layer.setTransform(t)
SetLayerTransform(l, t) ==
  /\ l \in created \ {Root} /\ lTransform[l] # t
  /\ lTransform' = [lTransform EXCEPT ![l] = t]
  /\ bLast' = "change"
  /\ UNCHANGED <<layerVars, lBounds, absoluteBounds>>

\* preprocessLayers(layerTree) of a composite call: for each layer from the root
\* down calculateAbsoluteBounds, then sortLayerChildren
PreprocessLayers ==
  /\ LET s == SortLayerChildren(LayerState, zIndex)
     IN  /\ children' = s.children
         /\ absoluteBounds' = PreprocessEach(absoluteBounds, PreprocessOrder(s.children))
  /\ bLast' = "preprocess"
  /\ UNCHANGED <<created, allLayers, parent, zIndex, pushOrder, lBounds, lTransform>>

NextBounds ==
  \/ BuildBoundsTree
  \/ \E l \in Layers, b \in BoundsOptions : SetLayerBounds(l, b)
  \/ \E l \in Layers, t \in Transforms : SetLayerTransform(l, t)
  \/ PreprocessLayers

(* ------------- GPUSimulator.drawSingleQuad: the context state ----------- *)
\* The 2D context renderFrame draws on: its state stack and, of the drawing state,
\* globalAlpha (in percent) and the translation e of the current transform. Quads
\* here are visible, inside the viewport and differ in opacity, in the translation
\* of their transform and in their texture; drawImage throws for the texture
\* "broken" (an image source the context rejects). The clip is left out.
ContextQuadOptions ==
  {[texture |-> "none",   opacity |-> 100, e |-> 0],
   [texture |-> "none",   opacity |-> 50,  e |-> 1],
   [texture |-> "tex",    opacity |-> 100, e |-> 0],
   [texture |-> "broken", opacity |-> 50,  e |-> 1]}

DefaultContext == [stack |-> <<>>, globalAlpha |-> 100, e |-> 0]

\* context.save(), context.restore()
ContextSave(c) == [c EXCEPT !.stack = Append(@, [globalAlpha |-> c.globalAlpha, e |-> c.e])]
ContextRestore(c) ==
  IF c.stack = <<>> THEN c
  ELSE [stack |-> SubSeq(c.stack, 1, Len(c.stack) - 1),
        globalAlpha |-> c.stack[Len(c.stack)].globalAlpha,
        e |-> c.stack[Len(c.stack)].e]

\* drawSingleQuad(context, quad, viewport), quad being quads[i], on
\* d = [context, quads, drawn, raised]; drawn records the state each draw ran in
DrawSingleQuad(d, i) ==
  LET quad == d.quads[i]
      saved == ContextSave(d.context)
      c == [saved EXCEPT !.e = @ + quad.e,
                         !.globalAlpha = (@ * quad.opacity) \div 100]
  IN  IF quad.texture = "broken"
        THEN [d EXCEPT !.context = c, !.raised = TRUE]
        ELSE [d EXCEPT !.context = ContextRestore(c),
                       !.drawn = Append(@, [quad |-> i, globalAlpha |-> c.globalAlpha,
                                            e |-> c.e]),
                       !.quads[i].needsUpdate = FALSE]

\* the loop of executeBatchDraw over the quads of a command, up to an exception
RECURSIVE DrawBatchOnContext(_, _, _)
DrawBatchOnContext(d, batch, j) ==
  IF j > Len(batch) \/ d.raised THEN d
  ELSE DrawBatchOnContext(DrawSingleQuad(d, batch[j]), batch, j + 1)

\* the loop of processCommandBuffer over the commands, up to an exception
RECURSIVE ProcessOnContext(_, _, _)
ProcessOnContext(d, commands, k) ==
  IF k > Len(commands) \/ d.raised THEN d
  ELSE ProcessOnContext(DrawBatchOnContext(d, commands[k].quads, 1), commands, k + 1)

InitContext ==
  /\ context = DefaultContext
  /\ ctxQuads = <<>>
  /\ ctxBatch = [shader |-> "default", texture |-> "none", blendMode |-> "source-over"]
  /\ kLast = [op |-> "none", drawn |-> <<>>, raised |-> FALSE]

\* createDrawQuad({ opacity, transform, texture })
CreateContextQuad(o) ==
  /\ Len(ctxQuads) < MaxContextQuads
  /\ ctxQuads' = Append(ctxQuads,
                        [shader |-> "default", texture |-> o.texture,
                         blendMode |-> "source-over", visible |-> TRUE, x |-> 0,
                         needsUpdate |-> TRUE, opacity |-> o.opacity, e |-> o.e])
  /\ kLast' = [op |-> "create", drawn |-> <<>>, raised |-> FALSE]
  /\ UNCHANGED <<context, ctxBatch>>

\* quad.markDirty()
MarkContextQuadDirty(i) ==
  /\ i \in 1..Len(ctxQuads)
  /\ ~ctxQuads[i].needsUpdate
  /\ ctxQuads' = [ctxQuads EXCEPT ![i].needsUpdate = TRUE]
  /\ kLast' = [op |-> "markDirty", drawn |-> <<>>, raised |-> FALSE]
  /\ UNCHANGED <<context, ctxBatch>>

\* renderFrame(context, viewport) with batching enabled, returning or throwing
RenderFrameOnContext(viewport) ==
  LET g0 == [batch |-> [quads |-> <<>>, shader |-> ctxBatch.shader,
                        texture |-> ctxBatch.texture, blendMode |-> ctxBatch.blendMode],
             commandBuffer |-> <<>>,
             batchCount |-> ResetFrameStats.batchCount]
      g1 == FlushCurrentBatch(SubmitFrom(g0, ctxQuads, 1, viewport, TRUE))
      d0 == [context |-> context, quads |-> ctxQuads, drawn |-> <<>>, raised |-> FALSE]
      d1 == ProcessOnContext(d0, g1.commandBuffer, 1)
  IN  /\ Len(context.stack) < MaxSaves
      /\ context' = d1.context
      /\ ctxQuads' = d1.quads
      /\ ctxBatch' = [shader |-> g1.batch.shader, texture |-> g1.batch.texture,
                      blendMode |-> g1.batch.blendMode]
      /\ kLast' = [op |-> "renderFrame", drawn |-> d1.drawn, raised |-> d1.raised]

NextContext ==
  \/ \E o \in ContextQuadOptions : CreateContextQuad(o)
  \/ \E i \in 1..MaxContextQuads : MarkContextQuadDirty(i)
  \/ RenderFrameOnContext(Viewport)

(* ------------- PaintRecordGenerator.mergeSimilarRecordsInLayer ---------- *)
\* The paint records of one layer with what the merge pass reads: type, filled,
\* stroked, fillStyle and bounds.

\* new RectPaintRecord({ fillStyle, filled, stroked, bounds })
RectPaintRecord(fill, filled, stroked, b) ==
  [type |-> "rect", filled |-> filled, stroked |-> stroked, fillStyle |-> fill, bounds |-> b]
\* a record of another type
TextPaintRecord(b) ==
  [type |-> "text", filled |-> FALSE, stroked |-> FALSE, fillStyle |-> "", bounds |-> b]

MergeRecordOptions ==
  {RectPaintRecord("red", TRUE, FALSE, Rect(0, 0, 1, 1)),
   RectPaintRecord("red", TRUE, FALSE, Rect(2, 1, 1, 2)),
   RectPaintRecord("blue", TRUE, FALSE, Rect(1, 0, 1, 1)),
   RectPaintRecord("red", TRUE, TRUE, Rect(1, 1, 1, 1)),
   RectPaintRecord("red", FALSE, TRUE, Rect(0, 1, 2, 1)),
   TextPaintRecord(Rect(0, 0, 1, 1))}

MaxOf(a, b) == IF a > b THEN a ELSE b

\* mergeBounds with the second rectangle in place of the union
MergeBoundsKeepingSecond(bounds1, bounds2) == bounds2
\* mergeBounds(bounds1, bounds2)
MergeBounds(bounds1, bounds2) ==
  LET x == Min(bounds1.x, bounds2.x)
      y == Min(bounds1.y, bounds2.y)
  IN  Rect(x, y,
           MaxOf(bounds1.x + bounds1.width, bounds2.x + bounds2.width) - x,
           MaxOf(bounds1.y + bounds1.height, bounds2.y + bounds2.height) - y)

\* the loop of mergeSimilarRecordsInLayer over records; currentRectRecord is <<>>
\* for null; returns mergedRecords
RECURSIVE MergeRecordsLoop(_, _, _)
MergeRecordsLoop(records, mergedRecords, currentRectRecord) ==
  IF records = <<>> THEN mergedRecords \o currentRectRecord
  ELSE
    LET record == Head(records)
    IN  IF record.type = "rect" /\ record.filled /\ ~record.stroked
          THEN IF currentRectRecord = <<>>
                 THEN MergeRecordsLoop(Tail(records), mergedRecords, <<record>>)
               ELSE IF currentRectRecord[1].fillStyle = record.fillStyle
                 THEN MergeRecordsLoop(Tail(records), mergedRecords,
                        <<[currentRectRecord[1] EXCEPT
                             !.bounds = MergeBounds(currentRectRecord[1].bounds, record.bounds)]>>)
               ELSE MergeRecordsLoop(Tail(records),
                                     mergedRecords \o currentRectRecord, <<record>>)
          ELSE MergeRecordsLoop(Tail(records),
                                mergedRecords \o currentRectRecord \o <<record>>, <<>>)

InitMerge ==
  /\ mRecords = <<>>
  /\ mLast = [op |-> "none", before |-> <<>>]

\* layer.paintRecords.push(record)
AddMergeRecord(record) ==
  /\ Len(mRecords) < MaxMergeRecords
  /\ mRecords' = Append(mRecords, record)
  /\ mLast' = [op |-> "add", before |-> mRecords]

\* generator.mergeSimilarRecordsInLayer(layer)
MergeSimilarRecordsInLayer ==
  /\ mRecords' = MergeRecordsLoop(mRecords, <<>>, <<>>)
  /\ mLast' = [op |-> "merge", before |-> mRecords]

NextMerge ==
  \/ \E record \in MergeRecordOptions : AddMergeRecord(record)
  \/ MergeSimilarRecordsInLayer

vars == <<layerVars, tilingVars, rasterVars, gpuVars, compositorVars, calculatorVars, generatorVars, engineVars, disposeVars, canvasVars, boundsVars, contextVars, mergeVars>>

Init == InitLayer /\ InitTiling /\ InitRaster /\ InitGPU /\ InitCompositor /\ InitCalculator /\ InitGenerator /\ InitEngine /\ InitDispose /\ InitCanvas /\ InitBounds /\ InitContext /\ InitMerge

SpecLayer == Init /\ [][NextLayer /\ UNCHANGED <<tilingVars, rasterVars, gpuVars, compositorVars, calculatorVars, generatorVars, engineVars, disposeVars, canvasVars, boundsVars, contextVars, mergeVars>>]_vars
SpecTiling == Init /\ [][NextTiling /\ UNCHANGED <<layerVars, rasterVars, gpuVars, compositorVars, calculatorVars, generatorVars, engineVars, disposeVars, canvasVars, boundsVars, contextVars, mergeVars>>]_vars
SpecRaster == Init /\ [][NextRaster /\ UNCHANGED <<layerVars, tilingVars, gpuVars, compositorVars, calculatorVars, generatorVars, engineVars, disposeVars, canvasVars, boundsVars, contextVars, mergeVars>>]_vars
SpecGPU == Init /\ [][NextGPU /\ UNCHANGED <<layerVars, tilingVars, rasterVars, compositorVars, calculatorVars, generatorVars, engineVars, disposeVars, canvasVars, boundsVars, contextVars, mergeVars>>]_vars
SpecCompositor == Init /\ [][NextCompositor /\ UNCHANGED <<tilingVars, rasterVars, gpuVars, calculatorVars, generatorVars, engineVars, disposeVars, canvasVars, boundsVars, contextVars, mergeVars>>]_vars
SpecCalculator == Init /\ [][NextCalculator /\ UNCHANGED <<layerVars, tilingVars, rasterVars, gpuVars, compositorVars, generatorVars, engineVars, disposeVars, canvasVars, boundsVars, contextVars, mergeVars>>]_vars

SpecGenerator == Init /\ [][NextGenerator /\ UNCHANGED <<layerVars, tilingVars, rasterVars, gpuVars, compositorVars, calculatorVars, engineVars, disposeVars, canvasVars, boundsVars, contextVars, mergeVars>>]_vars
SpecRasterCache == Init /\ [][NextRasterCache /\ UNCHANGED <<layerVars, tilingVars, gpuVars, compositorVars, calculatorVars, generatorVars, engineVars, disposeVars, canvasVars, boundsVars, contextVars, mergeVars>>]_vars
SpecEngine == Init /\ [][NextEngine /\ UNCHANGED <<layerVars, tilingVars, rasterVars, gpuVars, compositorVars, calculatorVars, generatorVars, disposeVars, canvasVars, boundsVars, contextVars, mergeVars>>]_vars
SpecDispose == Init /\ [][NextDispose /\ UNCHANGED <<tilingVars, rasterVars, gpuVars, compositorVars, calculatorVars, generatorVars, engineVars, canvasVars, boundsVars, contextVars, mergeVars>>]_vars
SpecCanvas == Init /\ [][NextCanvas /\ UNCHANGED <<layerVars, tilingVars, rasterVars, gpuVars, compositorVars, calculatorVars, generatorVars, engineVars, disposeVars, boundsVars, contextVars, mergeVars>>]_vars
SpecTilingAll == Init /\ [][NextTilingAll /\ UNCHANGED <<layerVars, rasterVars, gpuVars, compositorVars, calculatorVars, generatorVars, engineVars, disposeVars, canvasVars, boundsVars, contextVars, mergeVars>>]_vars
SpecTilingNested == Init /\ [][NextTilingNested /\ UNCHANGED <<layerVars, rasterVars, gpuVars, compositorVars, calculatorVars, generatorVars, engineVars, disposeVars, canvasVars, boundsVars, contextVars, mergeVars>>]_vars
SpecTilingDirty == Init /\ [][NextTilingDirty /\ UNCHANGED <<layerVars, rasterVars, gpuVars, compositorVars, calculatorVars, generatorVars, engineVars, disposeVars, canvasVars, boundsVars, contextVars, mergeVars>>]_vars
SpecBounds == Init /\ [][NextBounds /\ UNCHANGED <<tilingVars, rasterVars, gpuVars, compositorVars, calculatorVars, generatorVars, engineVars, disposeVars, canvasVars, contextVars, mergeVars>>]_vars
SpecContext == Init /\ [][NextContext /\ UNCHANGED <<layerVars, tilingVars, rasterVars, gpuVars, compositorVars, calculatorVars, generatorVars, engineVars, disposeVars, canvasVars, boundsVars, mergeVars>>]_vars
SpecMerge == Init /\ [][NextMerge /\ UNCHANGED <<layerVars, tilingVars, rasterVars, gpuVars, compositorVars, calculatorVars, generatorVars, engineVars, disposeVars, canvasVars, boundsVars, contextVars>>]_vars

(* ------------------------------- claims -------------------------------- *)

\* C1: after every mutation (addChild, removeChild, the builder's merge, an
\* assignment to zIndex) every layer's children are sorted by zIndex ascending,
\* and children of equal zIndex stand in the order in which they were added.
C1_ChildrenSortedByZ ==
  \A l \in created : \A i, j \in 1..Len(children[l]) :
    i < j =>
      \/ zIndex[children[l][i]] < zIndex[children[l][j]]
      \/ /\ zIndex[children[l][i]] = zIndex[children[l][j]]
         /\ IndexOf(pushOrder[l], children[l][i]) < IndexOf(pushOrder[l], children[l][j])

\* the parent chain of l never comes back to a layer already passed
RECURSIVE ParentChainEnds(_, _)
ParentChainEnds(l, seen) ==
  IF l = NoLayer THEN TRUE
  ELSE l \notin seen /\ ParentChainEnds(parent[l], seen \cup {l})

\* C2: after any sequence of addChild, removeChild and removeLayer a layer is in
\* the children list of at most one layer, once, that layer is its parent, a
\* layer with a parent is in that parent's list, and no layer is its own ancestor.
C2_SingleParentAcyclic ==
  /\ \A p, c \in created : (c \in Range(children[p])) <=> (parent[c] = p)
  /\ \A p \in created : \A i, j \in 1..Len(children[p]) :
       i # j => children[p][i] # children[p][j]
  /\ \A c \in created : Cardinality({p \in created : c \in Range(children[p])}) <= 1
  /\ \A l \in created : ParentChainEnds(l, {})

\* C3: a getOrCreateTile that finds the tile adds one to cacheHits and leaves the
\* tile at the most-recently-used end of tileAccessOrder.
C3_HitMovesToMostRecent ==
  [][tLast'.op = "hit" =>
       /\ tCacheHits' = tCacheHits + 1
       /\ Len(tileAccessOrder') > 0
       /\ tileAccessOrder'[Len(tileAccessOrder')] = tLast'.key]_vars

\* width * height * 4 summed over the tiles of keys
RECURSIVE SumTileMemory(_)
SumTileMemory(keys) ==
  IF keys = {} THEN 0
  ELSE LET k == CHOOSE k \in keys : TRUE
       IN  EstimateTileMemoryUsage(tiles[k]) + SumTileMemory(keys \ {k})

\* C4: after a tile creation and its eviction pass, currentMemoryUsage is the sum
\* of width * height * 4 over the tiles of all layers and is at most
\* maxMemoryUsage.
C4_MemoryWithinBudget ==
  tLast.op = "create" =>
    /\ currentMemoryUsage = SumTileMemory(DOMAIN tiles)
    /\ currentMemoryUsage <= MaxMemoryUsage

\* a creation that evicted and left tiles of two layers
C4_CreateEvicted ==
  /\ tLast.op = "create"
  /\ tLast.evicted > 0
  /\ \E k1, k2 \in DOMAIN tiles : tiles[k1].layer # tiles[k2].layer

\* C5: contents that differ in a fill color never have the same signature: no
\* cached buffer whose pixels differ from the layer's records in a fill color
\* only is stored under the signature of a tile of the layer now, and a cache
\* hit returns the pixels the records draw now.
C5_FillColorInSignature ==
  /\ \A i \in 1..Len(rasterCache), t \in RasterTiles :
       LET px == rasterCache[i].buffer.pixels
       IN  (/\ Len(px) = Len(paintRecords)
            /\ \A k \in 1..Len(px) : px[k][1] = paintRecords[k].type
            /\ \E k \in 1..Len(px) : px[k][2] # paintRecords[k].fillStyle)
           => rasterCache[i].sig # GenerateTileSignature(t, paintRecords)
  /\ rLast.op = "hit" => rLast.ret.pixels = DrawRecords(paintRecords)

\* C6: a rasterizeTile on a tile right after a rasterizeTile on that tile has
\* returned a buffer is a cache hit: cacheHits grows by one, nothing is drawn or
\* cached, the pixels returned are those of the first call, and the tile is clean
\* and holds the buffer.
C6_SecondCallIsHit ==
  [][\A t \in RasterTiles :
       (/\ rLast.op \in {"done", "hit"} /\ rLast.tile = t /\ rLast.ret.set
        /\ rLast'.op \in {"hit", "miss"} /\ rLast'.tile = t)
       => /\ rLast'.op = "hit"
          /\ rCacheHits' = rCacheHits + 1
          /\ rLast'.ret.set
          /\ rLast'.ret.pixels = rLast.ret.pixels
          /\ tileContent'[t] = rLast'.ret
          /\ ~tileDirty'[t]
          /\ UNCHANGED <<rasterCache, currentCacheSize, inFlight, workerBusy>>]_vars

\* a hit that returned a buffer with something drawn in it
C6_HitAfterRasterize ==
  /\ rLast.op = "hit"
  /\ rLast.ret.set /\ Len(rLast.ret.pixels) > 0
  /\ rCacheHits > 0
  /\ ~tileDirty[rLast.tile]

\* C7: no two rasterizations of the same signature are under way at once.
C7_OneInFlightPerSignature ==
  \A i, j \in 1..Len(inFlight) :
    (/\ i # j
     /\ inFlight[i].pc \in {"queued", "resolved", "rejected"}
     /\ inFlight[j].pc \in {"queued", "resolved", "rejected"})
    => inFlight[i].sig # inFlight[j].sig

\* C8: when drawing throws, on the synchronous or on the worker path, the call
\* still completes, with null, and the worker that ran it is idle again: no call
\* is left without an answer, every busy worker has a job whose timer is still to
\* fire, and a failed call returned null.
C8_DrawFailureReturnsNull ==
  /\ \A i \in 1..Len(inFlight) : inFlight[i].pc # "lost"
  /\ \A w \in Workers : workerBusy[w] =>
       \E i \in 1..Len(inFlight) : inFlight[i].pc = "queued" /\ inFlight[i].worker = w
  /\ rLast.op = "failed" => ~rLast.ret.set

\* the quads of the batches, one batch after the other
RECURSIVE ConcatBatches(_)
ConcatBatches(batches) ==
  IF batches = <<>> THEN <<>> ELSE Head(batches) \o ConcatBatches(Tail(batches))

BatchKey(i) == <<drawQuads[i].shader, drawQuads[i].texture, drawQuads[i].blendMode>>

\* C9: with batching, a frame's batches are the submitted quads in emission
\* order cut into maximal runs of equal (shader, texture, blendMode), each batch
\* is one draw call, and the quads are drawn in that order, none lost or twice.
C9_BatchesAreMaximalRuns ==
  (gFrame.rendered /\ enableBatching) =>
    LET b == gFrame.commands
    IN  /\ ConcatBatches(b) = gFrame.submitted
        /\ gFrame.drawn = gFrame.submitted
        /\ \A k \in 1..Len(b) :
             /\ Len(b[k]) > 0
             /\ \A i, j \in 1..Len(b[k]) : BatchKey(b[k][i]) = BatchKey(b[k][j])
        /\ \A k \in 1..(Len(b) - 1) : BatchKey(b[k][Len(b[k])]) # BatchKey(b[k+1][1])
        /\ stats.totalDrawCalls = Len(b)
        /\ stats.batchCount = Len(b)
        /\ stats.totalQuads = Len(gFrame.submitted)

\* a frame with batching that made a batch of two quads and a second batch
C9_FrameWithTwoBatches ==
  /\ gFrame.rendered /\ enableBatching
  /\ Len(gFrame.commands) >= 2
  /\ \E k \in 1..Len(gFrame.commands) : Len(gFrame.commands[k]) >= 2

\* C10: every renderFrame, the second and later ones too, draws exactly the
\* created quads that are visible and intersect the viewport, each once.
C10_FrameDrawsVisibleQuads ==
  gFrame.rendered =>
    /\ Range(gFrame.drawn) =
         {i \in 1..Len(drawQuads) :
            drawQuads[i].visible /\ IntersectsViewport(drawQuads[i], Viewport)}
    /\ \A i, j \in 1..Len(gFrame.drawn) : i # j => gFrame.drawn[i] # gFrame.drawn[j]

\* C11: whenever something throws during a composite call, in preprocessing, tile
\* generation, rasterization or final drawing, or because the tree is null, the
\* surface holds the diagnostic message and nothing else.
C11_ErrorPaintsDiagnostic ==
  cLast.raised => surface = <<Diagnostic>>

\* the layer and the place of the draws on the surface that are tiles or records
IsDraw(e) == e.what \in {"tile", "record"}

\* C12: in tiled mode a composite blits every tile that has rasterized content and
\* intersects the viewport, of every visible layer, the layers that are not dirty
\* included, and the blits are in ascending (zIndex, id) order of their layers.
C12_TiledDrawsEveryRasterizedTile ==
  (cLast.op = "composite" /\ cLast.tree = "tree" /\ enableTiling) =>
    /\ \A k \in DOMAIN cTiles :
         (/\ cTiles[k].rasterizedContent.set
          /\ IsTileVisible(cTiles[k].tile)
          /\ IsLayerVisibleInViewport(k[1]))
         => \E i \in 1..Len(surface) :
              /\ surface[i].what = "tile"
              /\ surface[i].layer = k[1]
              /\ surface[i].at = cTiles[k].tile.x
    /\ \A i, j \in 1..Len(surface) :
         i < j => TileBefore(<<surface[i].layer>>, <<surface[j].layer>>)

\* two layers with the same parent
Siblings(a, b) == a # b /\ parent[a] # NoLayer /\ parent[a] = parent[b]

\* C13: in a composite call, tiled or direct, sibling layers are visited and drawn
\* in ascending z-index order, whatever the order they were added in and whatever
\* zIndex assignments followed.
C13_SiblingsInZOrder ==
  (cLast.tree = "tree" /\ ~cLast.changed) =>
    /\ \A i, j \in 1..Len(cLast.visited) :
         (i < j /\ Siblings(cLast.visited[i], cLast.visited[j]))
           => zIndex[cLast.visited[i]] <= zIndex[cLast.visited[j]]
    /\ \A i, j \in 1..Len(surface) :
         (i < j /\ IsDraw(surface[i]) /\ IsDraw(surface[j])
                /\ Siblings(surface[i].layer, surface[j].layer))
           => zIndex[surface[i].layer] <= zIndex[surface[j].layer]

\* two siblings were drawn, the one that was added last first, because its zIndex
\* is the smaller one
C13_LaterSiblingDrawnFirst ==
  /\ cLast.tree = "tree" /\ ~cLast.changed
  /\ \E i, j \in 1..Len(surface) :
       /\ i < j /\ IsDraw(surface[i]) /\ IsDraw(surface[j])
       /\ Siblings(surface[i].layer, surface[j].layer)
       /\ surface[i].layer > surface[j].layer
       /\ zIndex[surface[i].layer] < zIndex[surface[j].layer]

\* C14: compositing and rasterizing leave the bounds of every paint record as they
\* were when the record was added.
C14_RecordBoundsUnchanged ==
  \A l \in Layers : recordX[l] = 0

\* the product of the opacities of l and of the layers above it, in hundredths
RECURSIVE EffectiveOpacity(_, _)
EffectiveOpacity(l, fuel) ==
  IF parent[l] = NoLayer \/ fuel = 0 THEN layerOptions[l].opacity
  ELSE TimesOpacity(EffectiveOpacity(parent[l], fuel - 1), layerOptions[l].opacity)

\* C18: what a composite draws for a layer, as a tile or directly, is drawn with
\* the product of the opacities on the layer's ancestor chain: 0.5 for a layer of
\* opacity 0.5 under the root, 0.25 for its child of opacity 0.5.
C18_AlphaIsProductOfOpacities ==
  (cLast.tree = "tree" /\ ~cLast.changed) =>
    \A i \in 1..Len(surface) :
      IsDraw(surface[i]) => surface[i].alpha = EffectiveOpacity(surface[i].layer, NumLayers)

\* C20: a composite call that follows a composite call on the same tree, the tree
\* unchanged in between and none of its layers dirty, returns the statistics the
\* first call returned.
C20_SameStatsWhenNothingDirty ==
  [][(/\ cLast'.op = "composite"
      /\ cLast'.hasPrev
      /\ \A l \in created : ~needsRepaint[l])
     => cStats' = cStats]_vars

\* the second of two composite calls on an unchanged tree of clean layers, two of
\* them or more visible, has returned
C20_SecondCompositeOfCleanTree ==
  /\ cLast.op = "composite" /\ cLast.hasPrev /\ cLast.tree = "tree"
  /\ \A l \in created : ~needsRepaint[l]
  /\ cStats.layersComposited >= 2

\* the compositing triggers a style matches, and the first of them in the order
\* transform, opacity
TriggersOf(style) ==
  (IF style.transform THEN {"transform"} ELSE {}) \cup
  (IF style.opacity # NoOpacity /\ style.opacity < 100 THEN {"opacity"} ELSE {})
FirstTriggerOf(style) ==
  IF "transform" \in TriggersOf(style) THEN "transform"
  ELSE IF "opacity" \in TriggersOf(style) THEN "opacity"
  ELSE "none"

\* C15: the tree calculate returns with optimization enabled contains exactly one
\* layer made for each node that matches a trigger and none for a node that
\* matches none, each counted under its first matching reason, and for a layout
\* tree that is a single triggering root the root layer has exactly one child.
C15_OneLayerPerTriggeringNode ==
  (calc.done /\ calc.optimize) =>
    LET s == calc.tree
        inTree == Below(s.children, Root, NumLayers + 1) \ {Root}
    IN  /\ \A n \in 1..Len(layoutTree) :
             LET mine == {l \in inTree : s.built[n] = l}
             IN  IF TriggersOf(layoutTree[n].style) # {}
                   THEN Cardinality(mine) = 1
                   ELSE mine = {} /\ s.built[n] = NoLayer
        /\ \A r \in Reasons :
             s.compositingReasons[r] =
               Cardinality({n \in 1..Len(layoutTree) : FirstTriggerOf(layoutTree[n].style) = r})
        /\ (Len(layoutTree) = 1 /\ TriggersOf(layoutTree[1].style) # {})
             => Len(s.children[Root]) = 1

\* the layer of the nearest ancestor of node n that got a layer, the root layer
\* when there is none
RECURSIVE HomeLayer(_, _, _)
HomeLayer(nodes, built, n) ==
  LET p == nodes[n].parent
  IN  IF p = NoNode THEN Root
      ELSE IF built[p] # NoLayer THEN built[p]
      ELSE HomeLayer(nodes, built, p)

\* C16: after the layer tree is built and the paint records are generated, the
\* content of every visible node without a layer of its own is among the paint
\* records of the layer of its nearest promoted ancestor, or of the root layer.
C16_ContentOnNearestPromotedAncestor ==
  painted.done =>
    \A n \in 1..Len(layoutTree) :
      (IsNodeVisible(layoutTree[n].style) /\ TriggersOf(layoutTree[n].style) = {})
        => n \in Range(painted.records[HomeLayer(layoutTree, calc.tree.built, n)])

\* C17: a layer made with the option opacity: o has opacity o, and the layer made
\* for a node whose style has opacity o has opacity o, 0 included.
C17_LayerOpacityIsGivenOpacity ==
  /\ madeLayer.made => madeLayer.opacity = madeLayer.option
  /\ calc.done =>
       \A n \in 1..Len(layoutTree) :
         (calc.tree.built[n] # NoLayer /\ layoutTree[n].style.opacity # NoOpacity)
           => calc.tree.opacity[calc.tree.built[n]] = layoutTree[n].style.opacity

\* the corners of the tileSize-aligned cells from floor(min / tileSize) to
\* ceil(max / tileSize) of b, on both axes
AlignedCells(b, tileSize) ==
  LET lowX == b.x \div tileSize
      lowY == b.y \div tileSize
      highX == -((-(b.x + b.width)) \div tileSize)
      highY == -((-(b.y + b.height)) \div tileSize)
  IN  {<<cx * tileSize, cy * tileSize>> : cx \in lowX..(highX - 1), cy \in lowY..(highY - 1)}

\* C19: generateTilesForLayer returns one tile for each cell of the aligned grid
\* over the layer's bounds, no tile twice and no other tile; for bounds
\* (0,0,800,600) and tile size 256 the grid has the 12 cells with x in
\* {0,256,512,768} and y in {0,256,512}.
C19_OneTilePerGridCell ==
  /\ tLast.op = "cleanup" =>
       LET r == tLast.returned
       IN  /\ \A i, j \in 1..Len(r) : i # j => r[i].key # r[j].key
           /\ {<<r[i].x, r[i].y>> : i \in 1..Len(r)} = AlignedCells(tLast.grid, TileSize)
           /\ Len(r) = Cardinality(AlignedCells(tLast.grid, TileSize))
  /\ LET cells == GridCellsOf(Rect(0, 0, 800, 600), 256)
     IN  /\ Len(cells) = 12
         /\ Range(cells) = {0, 256, 512, 768} \X {0, 256, 512}

\* generateTilesForLayer has returned for a layer whose bounds start inside a
\* cell and end inside the next one
C19_GridOfTwoCells ==
  /\ tLast.op = "cleanup"
  /\ tLast.grid.x % TileSize # 0
  /\ Len(tLast.returned) >= 2

\* the records the node of layer i gives, piece by piece
BackgroundOf(i) == CreateBackgroundRecord(pLayers[i].node)
BorderOf(i) == CreateBorderRecord(pLayers[i].node)
ContentOf(i) == CreateContentRecords(pLayers[i].node)
HasShadow(i) == pLayers[i].node.shadow \notin {"", "none"}

\* C21: for a visible node the records are emitted in the order background rect,
\* border path, content records; with a shadow property that is present and not
\* 'none', the first content record is replaced by a shadow record whose target
\* is that record, and every other record (background, border, further content)
\* is kept at its place in the list.
C21_ShadowReplacesFirstContentRecord ==
  pDone =>
    \A i \in 1..Len(pLayers) :
      (pLayers[i].node.exists /\ NodeIsVisible(pLayers[i].node)) =>
        /\ ~HasShadow(i) =>
             pLayers[i].paintRecords = BackgroundOf(i) \o BorderOf(i) \o ContentOf(i)
        /\ (HasShadow(i) /\ ContentOf(i) # <<>>) =>
             pLayers[i].paintRecords =
               BackgroundOf(i) \o BorderOf(i)
                 \o <<PaintRecordOf("shadow", ContentOf(i)[1].type)>> \o Tail(ContentOf(i))

\* the layers whose layout node is invisible: display none, visibility hidden,
\* opacity '0', a width that is not positive, or no layout box at all
InvisibleLayers ==
  {i \in 1..Len(pLayers) :
     /\ pLayers[i].node.exists
     /\ \/ pLayers[i].node.display = "none"
        \/ pLayers[i].node.visibility = "hidden"
        \/ pLayers[i].node.opacity = 0
        \/ pLayers[i].node.width <= 0
        \/ ~pLayers[i].node.layout}

C23_InvalidLayoutTreeGivesRootOnly ==
  (calc.done /\ (calc.input \in InvalidLayoutTrees \/ layoutTree = <<>>)) =>
    /\ ~calc.threw
    /\ calc.tree.children[Root] = <<>>
    /\ calc.tree.nextLayerId = 1

\* C24: render and incrementalRender never propagate an exception to the caller,
\* for a null, empty or partial layout tree as well as while records are
\* regenerated for changed or added nodes: every call returns a statistics object.
C24_EngineCallsReturnStats ==
  eCall.op # "none" => ~eCall.threw

\* C26: when composite is called with incremental set and a list of dirty
\* regions, only the union of those regions is cleared on the surface; the area
\* outside every supplied dirty region is not cleared.
C26_OnlyDirtyRegionsCleared ==
  (eCall.composited /\ eCall.incremental /\ eCall.dirtyRegions # <<>>) =>
    eCall.cleared \subseteq
      UNION {PixelsOf(eCall.dirtyRegions[i]) : i \in 1..Len(eCall.dirtyRegions)}

\* a step in which a rasterizeTile call that missed the cache returns its buffer
RasterizeCompletes == rLast'.op = "done" /\ Len(inFlight') < Len(inFlight)
\* that call was run by a worker of the pool, which the step sets free
CompletesOnWorker == RasterizeCompletes /\ \E w \in Workers : workerBusy[w] /\ ~workerBusy'[w]
\* a step in which rasterizeAsync finds no free worker and rasterizes at once
RasterizesOnMainThread ==
  /\ Len(inFlight') = Len(inFlight) + 1
  /\ inFlight'[Len(inFlight')].pc = "resolved"

C30_CacheSizeIsSumOfBuffers ==
  currentCacheSize = Len(rasterCache) * BufferSize

\* C27: after layer.dispose() the layer has no paint records, no backing store
\* and no children, and every former child has parent equal to null.
C27_DisposeDetachesChildren ==
  dLast.layer # NoLayer =>
    /\ layerRecords[dLast.layer] = 0
    /\ ~backingStore[dLast.layer]
    /\ children[dLast.layer] = <<>>
    /\ \A c \in dLast.formerChildren : parent[c] = NoLayer

\* the layers the root of a calculated tree reaches through children
InTree(tree, l) == l \in Below(tree.children, Root, NumLayers + 1)

\* C28: the optimization pass of the builder never merges a parent/child pair of
\* layers of which one has a clip rect: both layers are still in the tree after
\* the pass, with their clip rects unchanged.
C28_ClippedPairsAreKept ==
  (calc.done /\ ~calc.threw /\ calc.optimize) =>
    LET before == CalculateOp(layoutTree, FALSE)
    IN  \A p, c \in Layers :
          (/\ InTree(before, p)
           /\ IndexOf(before.children[p], c) # 0
           /\ (before.clipRect[p] \/ before.clipRect[c]))
          => /\ InTree(calc.tree, p) /\ InTree(calc.tree, c)
             /\ calc.tree.clipRect[p] = before.clipRect[p]
             /\ calc.tree.clipRect[c] = before.clipRect[c]

\* C29: right after a composite call with tiling and rasterization enabled that
\* raised nothing, every tile of a dirty layer in the viewport (the tiles the call
\* flagged needsRasterization) carries rasterized content, is marked clean, and, when
\* the tile is visible, has been drawn by the final composition of that same call
C29_DirtyTilesRasterizedBeforeDrawn ==
  (cLast.op = "composite" /\ cLast.tree = "tree" /\ enableTiling /\ ~cLast.raised) =>
    \A k \in DOMAIN cTiles :
      (needsRepaint[k[1]] /\ IsLayerVisibleInViewport(k[1])) =>
        /\ cTiles[k].rasterizedContent.set
        /\ ~cTiles[k].tile.isDirty
        /\ IsTileVisible(cTiles[k].tile) =>
             \E i \in 1..Len(surface) : surface[i] = DrawTile(cTiles[k])

\* C31: disposing or evicting a tile never changes the pixels of a buffer the raster
\* cache still holds: the canvas of every cached buffer shows what was rasterized
\* into it, and a cache hit hands the tile such a canvas, not a cleared one
C31_CachedBufferKeepsPixels ==
  /\ \A i \in 1..Len(bufferCache) : ~canvases[bufferCache[i].buffer].cleared
  /\ xLast.op = "hit" => ~canvases[xLast.ret].cleared

\* C32: after any sequence of generateTilesForLayer, removeTile, clearLayerTiles,
\* clearAllTiles and evictions the tile indexes agree: a key is in tiles exactly
\* when it is in its layer's set of layerTiles and exactly when it occurs once in
\* tileAccessOrder, and currentMemoryUsage is the sum of the estimated sizes of the
\* tiles in tiles.
C32_TileIndexesAgree ==
  /\ \A k \in DOMAIN tiles : k \in layerTiles[tiles[k].layer]
  /\ \A l \in TileLayers : \A k \in layerTiles[l] : k \in DOMAIN tiles /\ tiles[k].layer = l
  /\ \A k \in DOMAIN tiles :
       Cardinality({i \in 1..Len(tileAccessOrder) : tileAccessOrder[i] = k}) = 1
  /\ Range(tileAccessOrder) \subseteq DOMAIN tiles
  /\ currentMemoryUsage = SumTileMemory(DOMAIN tiles)

\* clearLayerTiles has removed the tiles of one layer while tiles of the other
\* layer, one of them in the second column, are left
C32_LayerClearedOtherLeft ==
  /\ tLast.op = "clearLayer"
  /\ \E k \in DOMAIN tiles : tiles[k].x >= TileSize
  /\ \E l \in TileLayers : layerTiles[l] = {}

\* the optimization pass collapses layer l of a calculated tree with its single child
Collapsible(tree, l) ==
  /\ Len(tree.children[l]) = 1
  /\ tree.opacity[l] = 100
  /\ ~tree.clipRect[l]
  /\ ~tree.clipRect[tree.children[l][1]]

\* C33: when the optimization pass collapses a layer with its single child, the
\* surviving layer carries the child's opacity and layout node, and every
\* descendant of the child stays in the tree with its own children list intact.
\* Stated for the collapse at the root of a tree in which no layer below the root
\* is collapsed itself.
C33_CollapseKeepsChildAndSubtree ==
  (calc.done /\ ~calc.threw /\ calc.optimize) =>
    LET before == CalculateOp(layoutTree, FALSE)
        c == before.children[Root][1]
        below == Below(before.children, c, NumLayers + 1) \ {c}
    IN  (/\ Collapsible(before, Root)
         /\ \A d \in below \cup {c} : ~Collapsible(before, d))
        => /\ calc.tree.opacity[Root] = before.opacity[c]
           /\ calc.tree.layoutNode[Root] = before.layoutNode[c]
           /\ \A d \in below : /\ InTree(calc.tree, d)
                               /\ calc.tree.children[d] = before.children[d]

\* the layers the root reaches through children lists ch
Reachable(ch) == Below(ch, Root, NumLayers + 1)

\* C34: a removeLayer(L) leaves neither L nor a layer disposed with it (a layer
\* below L) in allLayers, and an optimization pass of the builder leaves no layer
\* in allLayers that it has merged away (a layer the root reached before the pass
\* and does not reach after it).
C34_DisposedLayersDeregistered ==
  [][/\ \A l \in allLayers \ allLayers' :
          NoCycleBelow(children, l, {}) =>
            Below(children, l, NumLayers + 1) \cap allLayers' = {}
     /\ (/\ NoCycleBelow(children, Root, {})
         /\ allLayers' = allLayers
         /\ LET s == OptimizeLayerTreeOp(LayerState, zIndex)
            IN  parent' = s.parent /\ children' = s.children /\ pushOrder' = s.pushOrder)
        => (Reachable(children) \ Reachable(children')) \cap allLayers' = {}]_vars

\* C35: after a composite call that completed without error no layer of the tree
\* that is in the viewport is left with needsRepaint set, and a composite call that
\* follows one on the same unchanged tree creates and rasterizes no tile.
C35_CompositeClearsDirtyLayers ==
  (cLast.op = "composite" /\ cLast.tree = "tree" /\ ~cLast.raised) =>
    /\ \A i \in 1..Len(cLast.visited) :
         IsLayerVisibleInViewport(cLast.visited[i]) => ~needsRepaint[cLast.visited[i]]
    /\ cLast.hasPrev => cStats.tilesCreated = 0 /\ cStats.tilesRasterized = 0

\* C36: generateTilesForLayer marks a tile that was clean dirty exactly when the
\* layer is dirty as a whole (needsRepaint with no dirty region) or the layer's
\* dirty region intersects the tile: for a layer dirtied through markDirty(region)
\* a clean tile that the region does not intersect stays clean.
C36_TileDirtyOnlyWhenRegionIntersects ==
  [][(/\ gen.active /\ gen.cells # <<>>
      /\ tLast'.op = "hit"
      /\ tLast'.key \in DOMAIN tiles
      /\ ~tiles[tLast'.key].isDirty)
     => (tiles'[tLast'.key].isDirty
           <=> \/ gen.needsRepaint /\ ~gen.dirtyRegion.set
               \/ gen.dirtyRegion.set /\ TileIntersectsRect(tiles[tLast'.key], gen.dirtyRegion))]_vars

\* C37: after preprocessLayers every layer of the tree has absoluteBounds equal to
\* its bounds mapped through its transform plus the absoluteBounds its parent has
\* now (the root: its bounds), and equal to what getAbsoluteBounds() returns.
C37_AbsoluteBoundsOfThisFrame ==
  bLast = "preprocess" =>
    \A l \in Reachable(children) :
      /\ absoluteBounds[l] = CalculateAbsoluteBounds(absoluteBounds, l)
      /\ absoluteBounds[l] = GetAbsoluteBounds(l, NumLayers)
      /\ l = Root => absoluteBounds[l] = lBounds[l]

\* preprocessLayers has run on a tree with a transformed layer below a layer that
\* is not at the origin
C37_NestedTransformedLayer ==
  /\ bLast = "preprocess"
  /\ \E l \in Reachable(children) :
       /\ l # Root /\ parent[l] # Root
       /\ lTransform[l] # Identity
       /\ lBounds[l].x # 0
       /\ lBounds[parent[l]].x # 0

\* C38: after renderFrame has executed its batches the state stack of the context
\* is as before the frame (every save matched by a restore), also when a draw
\* threw, and every quad was drawn in its own transform and opacity only.
C38_StateStackBalanced ==
  kLast.op = "renderFrame" =>
    /\ context = DefaultContext
    /\ \A k \in 1..Len(kLast.drawn) :
         /\ kLast.drawn[k].globalAlpha = ctxQuads[kLast.drawn[k].quad].opacity
         /\ kLast.drawn[k].e = ctxQuads[kLast.drawn[k].quad].e

\* a record the merge pass may merge: a filled rectangle without stroke
Mergeable(record) == record.type = "rect" /\ record.filled /\ ~record.stroked

\* record i of records opens a run: it does not continue a run of filled,
\* unstroked rectangles of its fill style
OpensRun(records, i) ==
  ~(/\ i > 1
    /\ Mergeable(records[i]) /\ Mergeable(records[i - 1])
    /\ records[i].fillStyle = records[i - 1].fillStyle)

\* the last record of the run that record i opens
RunEnd(records, i) ==
  CHOOSE j \in i..Len(records) :
    /\ \A k \in (i + 1)..j : ~OpensRun(records, k)
    /\ j = Len(records) \/ OpensRun(records, j + 1)

\* the smallest rectangle that covers the bounds of records i..j
BoundingUnion(records, i, j) ==
  LET x == CHOOSE v \in {records[k].bounds.x : k \in i..j} :
             \A k \in i..j : v <= records[k].bounds.x
      y == CHOOSE v \in {records[k].bounds.y : k \in i..j} :
             \A k \in i..j : v <= records[k].bounds.y
      right == CHOOSE v \in {records[k].bounds.x + records[k].bounds.width : k \in i..j} :
                 \A k \in i..j : v >= records[k].bounds.x + records[k].bounds.width
      bottom == CHOOSE v \in {records[k].bounds.y + records[k].bounds.height : k \in i..j} :
                  \A k \in i..j : v >= records[k].bounds.y + records[k].bounds.height
  IN  Rect(x, y, right - x, bottom - y)

\* C39: after the merge pass no two consecutive records are filled, unstroked
\* rectangles of equal fill style and a second pass changes nothing; the result
\* has one record for each run of such rectangles, with the bounding union of
\* the run as its bounds, and every other record as it was.
C39_MergePassMergesRunsOnly ==
  mLast.op = "merge" =>
    LET before == mLast.before
        starts == {i \in 1..Len(before) : OpensRun(before, i)}
    IN  /\ \A i \in 2..Len(mRecords) : OpensRun(mRecords, i)
        /\ MergeRecordsLoop(mRecords, <<>>, <<>>) = mRecords
        /\ Len(mRecords) = Cardinality(starts)
        /\ \A i \in starts :
             LET k == Cardinality({s \in starts : s <= i})
             IN  mRecords[k] = [before[i] EXCEPT
                                  !.bounds = BoundingUnion(before, i, RunEnd(before, i))]

\* the pass has merged two rectangles that do not touch and kept a stroked one
C39_MergedApartKeptStroked ==
  /\ mLast.op = "merge"
  /\ Len(mLast.before) = 3 /\ Len(mRecords) = 2
  /\ \E i \in 1..2 : /\ Mergeable(mLast.before[i]) /\ Mergeable(mLast.before[i + 1])
                     /\ mLast.before[i].bounds # mLast.before[i + 1].bounds
                     /\ mRecords[i].bounds \notin {mLast.before[i].bounds,
                                                   mLast.before[i + 1].bounds}
  /\ \E i \in 1..2 : mRecords[i].stroked

\* C40: a call that creates a tile leaves every tile with a width and a height in
\* 1..tileSize, also for a layer whose absoluteBounds differ from its bounds, and
\* when it evicts nothing currentMemoryUsage has grown.
C40_CreatedTilesHavePositiveSize ==
  [][tLast'.op = "create" =>
       /\ \A k \in DOMAIN tiles' :
            /\ tiles'[k].width > 0 /\ tiles'[k].width <= TileSize
            /\ tiles'[k].height > 0 /\ tiles'[k].height <= TileSize
            /\ EstimateTileMemoryUsage(tiles'[k]) > 0
       /\ tLast'.evicted = 0 => currentMemoryUsage' > currentMemoryUsage]_vars

====
